---- MODULE Spec2Model ----
(***************************************************************************)
(* Model of the Scribe chat-archive bot (script/scribe.py), the parts of   *)
(* script/instabot.py it runs on, and of script/coroutines.py.             *)
(*                                                                         *)
(*   SpecStore  : the in-memory log store LogDBList driven by arbitrary    *)
(*                append / extend / delete calls.                          *)
(*   SpecQuery  : query() calls on such a store.                           *)
(*   SpecUuid   : the store together with its user -> UUID map.            *)
(*   SpecGossip : a room of Scribe instances running the log-gossip        *)
(*                protocol over the event scheduler.                       *)
(*   SpecSeq    : threads calling InstantClient.send_seq.                  *)
(*   SpecSched  : one EventScheduler, its run() thread and its callers.    *)
(*   SpecDispatch : a Scribe between its receive thread and the thread     *)
(*                that runs the scheduler.                                 *)
(*   SpecClient : the main loop InstantClient.run().                       *)
(*   SpecReplay : the log lines a Scribe writes, read by read_posts_ex.    *)
(*   SpecBatch  : process_logs on a LogDBList and on a LogDBSQLite.        *)
(*   SpecServe  : the answers to log-query and log-request.                *)
(*   SpecPush   : a room with a Scribe that pushes its store to peers.     *)
(*   SpecJoin   : SpecDispatch with a thread in EventScheduler.join().     *)
(*   SpecAll    : an All suspend and its children.                         *)
(*   SpecLock   : coroutines sharing a coroutines.Lock.                    *)
(***************************************************************************)
EXTENDS Integers, Sequences, FiniteSets, TLC

\* ------------------------------------------------------------------------
\* Bounds of the model
\* ------------------------------------------------------------------------
\* message ids are 1..MaxId (the order of the 16-digit hex strings is the
\* order of their integer values)
MaxId == 3
\* sender ids (the `from` field of an entry) are 1..MaxUid
MaxUid == 2
\* longest batch handed to one extend() call
MaxBatch == 2
\* largest capacity (maxlen) a store is created with
MaxCap == 2
\* longest _uuid_list an append_uuid() call is made on
MaxUuidList == 3

\* Python's None
None == -1

Ids == 1..MaxId
Uids == 1..MaxUid
\* a LogEntry, reduced to its key and its sender
Entries == [id : Ids, from : Uids]
Batches == UNION {[1..n -> Entries] : n \in 0..MaxBatch}
Caps == {None} \cup (0..MaxCap)
\* the bounds handed to query(): the ids, an id below and an id above them
QueryBounds == {None} \cup (0..(MaxId + 1))
\* the amounts handed to query(), up to more than a store can hold
Amounts == {None} \cup (0..(MaxId + 1))
\* the UUIDs a user id may be bound to
Uuids == {10 + u : u \in Uids}

VARIABLES
    \* ---- SpecStore: one LogDBList ----
    data,       \* LogDBList.data
    maxlen,     \* LogDB.maxlen
    uuids,      \* LogDBList.uuids
    uuid_list,  \* LogDBList._uuid_list
    last,       \* the last call made on the store: its name, arguments,
                \* return value and the contents of the store before it
    \* ---- SpecGossip: a room of Scribes ----
    room,       \* the clients connected to the room
    inbox,      \* per bot: the frames the backend has sent it, unread
    cfg,        \* per bot: dont_pull and the capacity of its store
    bot,        \* per bot: identity, db, _cur_candidate, _logs_done
    pending,    \* per bot: EventScheduler.pending
    mon,        \* per bot: what the bot has sent and processed so far
    \* ---- SpecSeq: threads calling send_seq on one client ----
    seq_value,  \* AtomicSequence.value
    seq_lock,   \* AtomicSequence._lock: the thread holding it, or None
    caller,     \* per thread: where it is in send_seq, its locals
    handed,     \* the values AtomicSequence.__call__ returned, in order
    wire,       \* the seq fields of the frames written to the WebSocket
    \* ---- SpecSched: one EventScheduler, its run() thread and callers ----
    events,     \* every Event created, by seq: time, handled, canceled,
                \* and whether its callback was invoked and whether a
                \* cancel() of it returned true
    sched,      \* EventScheduler: pending (seqs), forever, running
    runner,     \* the thread in run(): its position and locals
    now,        \* the clock read by EventScheduler.time()
    last_cancel,\* the last cancel() call: event, return value, and the
                \* event's state when it was made
    \* ---- SpecDispatch: a Scribe between its two threads ----
    callbacks,  \* per Event: the callback it was created with
    scribe,     \* the Scribe and its receive thread
    \* ---- SpecClient: the main loop of one InstantClient ----
    client,     \* the InstantClient and the thread in run()
    \* ---- SpecReplay, SpecBatch: log file and SQLite store ----
    logfile,    \* the lines the Scribe has logged
    table,      \* LogDBSQLite: the table `logs`
    \* ---- SpecAll: one All suspend and its children ----
    suspend,    \* the All: result, _finished, _finished_count, _raised
    child,      \* per child: how far it is, what it finished with, and
                \* whether cancel() was called on it
    woken,      \* the values the wake callback was invoked with, in order
    \* ---- SpecLock: coroutines sharing one Lock ----
    mutex,      \* the Lock: locked, _trigger, and the Acquires listening
    routine     \* per coroutine: where it is, and what it has seen

storeVars == <<data, maxlen, uuids, uuid_list, last>>
gossipVars == <<room, inbox, cfg, bot, pending, mon>>
seqVars == <<seq_value, seq_lock, caller, handed, wire>>
schedVars == <<events, sched, runner, now, last_cancel>>
appVars == <<callbacks, scribe, client, logfile, table>>
coVars == <<suspend, child, woken, mutex, routine>>
threadVars == <<seqVars, schedVars, appVars, coVars>>
vars == <<data, maxlen, uuids, uuid_list, last,
         room, inbox, cfg, bot, pending, mon,
         seq_value, seq_lock, caller, handed, wire,
         events, sched, runner, now, last_cancel,
         callbacks, scribe, client, logfile, table,
         suspend, child, woken, mutex, routine>>

\* ------------------------------------------------------------------------
\* Helpers on sequences
\* ------------------------------------------------------------------------
IdsOf(seq) == {seq[i].id : i \in 1..Len(seq)}

Min(a, b) == IF a <= b THEN a ELSE b
Max(a, b) == IF a >= b THEN a ELSE b

\* A Python slice index i on a list of length n: negative indices count
\* from the end, out-of-range ones are clamped.
PyIndex(n, i) == IF i < 0 THEN Max(n + i, 0) ELSE Min(i, n)

\* seq[lo:hi] for 0-based lo and hi
PySlice(seq, lo, hi) ==
    LET l == PyIndex(Len(seq), lo)
        h == PyIndex(Len(seq), hi)
    IN  IF l >= h THEN <<>> ELSE SubSeq(seq, l + 1, h)

\* seq[lo:]
PySliceFrom(seq, lo) ==
    LET l == PyIndex(Len(seq), lo)
    IN  IF l >= Len(seq) THEN <<>> ELSE SubSeq(seq, l + 1, Len(seq))

\* seq[:hi]
PySliceTo(seq, hi) == SubSeq(seq, 1, PyIndex(Len(seq), hi))

\* list.sort() on LogEntry objects: LogEntry.__lt__ compares the ids; the
\* sort is stable.
RECURSIVE InsertSorted(_, _)
InsertSorted(sorted, e) ==
    IF sorted = <<>> THEN <<e>>
    ELSE IF e.id < Head(sorted).id THEN <<e>> \o sorted
    ELSE <<Head(sorted)>> \o InsertSorted(Tail(sorted), e)

RECURSIVE SortById(_)
SortById(seq) ==
    IF seq = <<>> THEN <<>>
    ELSE InsertSorted(SortById(SubSeq(seq, 1, Len(seq) - 1)), seq[Len(seq)])

\* ------------------------------------------------------------------------
\* LogDBList
\* ------------------------------------------------------------------------
\* the loop of merge_logs: append every entry whose id was not seen yet
RECURSIVE MergeLoop(_, _, _, _)
MergeLoop(base, seen, added, add) ==
    IF add = <<>> THEN [base |-> base, added |-> added]
    ELSE LET e == Head(add) IN
         IF e.id \in seen
         THEN MergeLoop(base, seen, added, Tail(add))
         ELSE MergeLoop(Append(base, e), seen \cup {e.id},
                        added \cup {e.id}, Tail(add))

\* a wrong truncation: base[:maxlen], which keeps the lowest ids
TruncateKeepsLowest(base, cap) ==
    IF cap # None /\ cap # 0 THEN PySliceTo(base, cap) ELSE base

\* base[:] = base[-maxlen:], done only `if maxlen:` (neither None nor 0)
Truncate(base, cap) ==
    IF cap # None /\ cap # 0 THEN PySliceFrom(base, -cap) ELSE base

\* a wrong merge: base.sort() forgotten
merge_logs_unsorted(base, add, cap) ==
    LET m == MergeLoop(base, IdsOf(base), {}, add)
    IN  [base |-> Truncate(m.base, cap), added |-> m.added]

\* a wrong merge: `seen` starts empty instead of holding the ids of base
merge_logs_seen_empty(base, add, cap) ==
    LET m == MergeLoop(base, {}, {}, add)
    IN  [base |-> Truncate(SortById(m.base), cap), added |-> m.added]

\* a wrong merge: the list is cut to maxlen before it is sorted
merge_logs_cut_first(base, add, cap) ==
    LET m == MergeLoop(base, IdsOf(base), {}, add)
    IN  [base |-> SortById(Truncate(m.base, cap)), added |-> m.added]

\* LogDBList.merge_logs(base, add, maxlen): the new contents of base and
\* the returned set of added ids
merge_logs(base, add, cap) ==
    LET m == MergeLoop(base, IdsOf(base), {}, add)
    IN  [base |-> Truncate(SortById(m.base), cap), added |-> m.added]

\* LogDBList.bounds()
bounds(d) ==
    IF d = <<>> THEN <<None, None, None>>
    ELSE <<d[1].id, d[Len(d)].id, Len(d)>>

\* a wrong bisect_left: the insertion point after the entries equal to x
RECURSIVE bisect_left_after(_, _)
bisect_left_after(d, x) ==
    IF d = <<>> \/ Head(d).id > x THEN 0
    ELSE 1 + bisect_left_after(Tail(d), x)

\* bisect.bisect_left(d, x): the number of entries with id < x (0-based
\* insertion point in a sorted list)
RECURSIVE bisect_left(_, _)
bisect_left(d, x) ==
    IF d = <<>> \/ Head(d).id >= x THEN 0
    ELSE 1 + bisect_left(Tail(d), x)

\* bisect.bisect_right(d, x)
RECURSIVE bisect_right(_, _)
bisect_right(d, x) ==
    IF d = <<>> \/ Head(d).id > x THEN 0
    ELSE 1 + bisect_right(Tail(d), x)

\* LogDBList.query(lfrom, lto, amount)
query(d, lfrom, lto, amount) ==
    LET fromidx == IF lfrom = None THEN None ELSE bisect_left(d, lfrom)
        toidx == IF lto = None THEN None ELSE bisect_right(d, lto)
    IN  IF fromidx # None /\ toidx # None THEN PySlice(d, fromidx, toidx)
        ELSE IF fromidx # None THEN
            IF amount = None THEN PySliceFrom(d, fromidx)
            ELSE PySlice(d, fromidx, Min(Len(d), fromidx + amount))
        ELSE IF toidx # None THEN
            IF amount = None THEN PySliceTo(d, toidx)
            ELSE PySlice(d, Max(0, toidx - amount), toidx)
        ELSE IF amount # None THEN PySliceFrom(d, Len(d) - amount)
        ELSE d

\* LogDBList.delete(ids): the entries kept and the entries returned
RECURSIVE DeleteLoop(_, _, _, _)
DeleteLoop(d, idset, ndata, ret) ==
    IF d = <<>> THEN [data |-> ndata, ret |-> ret]
    ELSE IF Head(d).id \in idset
         THEN DeleteLoop(Tail(d), idset, ndata, Append(ret, Head(d)))
         ELSE DeleteLoop(Tail(d), idset, Append(ndata, Head(d)), ret)

\* a wrong delete: the entries are returned but stay in the store
delete_returns_only(d, idset) ==
    [data |-> d, ret |-> DeleteLoop(d, idset, <<>>, <<>>).ret]

delete(d, idset) == DeleteLoop(d, idset, <<>>, <<>>)

\* ------------------------------------------------------------------------
\* LogDBList: the user -> UUID map
\* ------------------------------------------------------------------------
MapSet(m, k, v) == [x \in (DOMAIN m) \cup {k} |-> IF x = k THEN v ELSE m[x]]
MapDel(m, k) == [x \in (DOMAIN m) \ {k} |-> m[x]]

\* the eviction loop of append_uuid: `for u in self._uuid_list[:c]: del
\* self.uuids[u]`; a uid that is no longer bound raises KeyError
RECURSIVE EvictLoop(_, _)
EvictLoop(m, us) ==
    IF us = <<>> THEN [uuids |-> m, exc |-> FALSE]
    ELSE IF Head(us) \notin DOMAIN m THEN [uuids |-> m, exc |-> TRUE]
    ELSE EvictLoop(MapDel(m, Head(us)), Tail(us))

\* LogDBList.append_uuid(uid, uuid) on the pair (uuids, _uuid_list): the
\* new pair, the return value, and whether the call raised
append_uuid(m, lst, cap, uid, uuid) ==
    LET ret == uid \notin DOMAIN m
        m1 == MapSet(m, uid, uuid)
        l1 == Append(lst, uid)
    IN  IF cap # None /\ Len(l1) > cap
        THEN LET c == Len(l1) - cap
                 ev == EvictLoop(m1, PySliceTo(l1, c))
             IN  [uuids |-> ev.uuids,
                  list |-> IF ev.exc THEN l1 ELSE PySliceFrom(l1, c),
                  ret |-> ret, exc |-> ev.exc]
        ELSE [uuids |-> m1, list |-> l1, ret |-> ret, exc |-> FALSE]

\* LogDB.extend_uuid(mapping): append_uuid for every item of the mapping
\* (a sequence of <<uid, uuid>> in the order of the dict), collecting the
\* uids that were new
RECURSIVE extend_uuid(_, _, _, _, _)
extend_uuid(m, lst, cap, mapping, ret) ==
    IF mapping = <<>>
    THEN [uuids |-> m, list |-> lst, ret |-> ret, exc |-> FALSE]
    ELSE LET r == append_uuid(m, lst, cap, Head(mapping)[1], Head(mapping)[2])
         IN  IF r.exc
             THEN [uuids |-> r.uuids, list |-> r.list, ret |-> ret,
                   exc |-> TRUE]
             ELSE extend_uuid(r.uuids, r.list, cap, Tail(mapping),
                              IF r.ret THEN Append(ret, Head(mapping)[1])
                              ELSE ret)

\* LogDBList.query_uuid(ids) for the senders of the entries ents: the
\* bindings found, in the order the senders first appear
RECURSIVE query_uuid(_, _, _)
query_uuid(m, ents, ret) ==
    IF ents = <<>> THEN ret
    ELSE LET u == Head(ents).from IN
         IF u \in DOMAIN m /\ \A i \in 1..Len(ret) : ret[i][1] # u
         THEN query_uuid(m, Tail(ents), Append(ret, <<u, m[u]>>))
         ELSE query_uuid(m, Tail(ents), ret)

\* LogDBList.get_uuid(uid): self.uuids[uid], a KeyError if uid is not bound
get_uuid(m, uid) ==
    IF uid \in DOMAIN m THEN [ret |-> m[uid], exc |-> FALSE]
    ELSE [ret |-> None, exc |-> TRUE]

\* ------------------------------------------------------------------------
\* SpecStore: calls on one in-memory store
\* ------------------------------------------------------------------------
NoCall == [op |-> "none", entries |-> <<>>, ids |-> {}, added |-> {},
           removed |-> <<>>, ok |-> FALSE, pre |-> <<>>,
           q |-> <<None, None, None>>, ret |-> <<>>,
           uid |-> None, uuid |-> None, exc |-> FALSE, pre_uuids |-> <<>>]

\* the values the variables of the room keep while only a store is run
GossipIdle ==
    /\ room = {}
    /\ inbox = <<>>
    /\ cfg = <<>>
    /\ bot = <<>>
    /\ pending = <<>>
    /\ mon = <<>>

\* AtomicSequence.__init__: self.value = -1
SeqStart == -1

\* the values the variables of the threads keep while none is run
SeqIdle ==
    /\ seq_value = SeqStart
    /\ seq_lock = None
    /\ caller = <<>>
    /\ handed = <<>>
    /\ wire = <<>>

NoCancel == [e |-> None, ret |-> FALSE, popped |-> FALSE, started |-> FALSE]

SchedIdle ==
    /\ events = <<>>
    /\ sched = <<>>
    /\ runner = <<>>
    /\ now = 0
    /\ last_cancel = NoCancel

\* the values the variables of the Scribe's threads, the client's loop,
\* the log file and the SQLite store keep while none of them is run
AppIdle ==
    /\ callbacks = <<>>
    /\ scribe = <<>>
    /\ client = <<>>
    /\ logfile = <<>>
    /\ table = <<>>

\* the values the variables of the coroutines keep while none is run
CoIdle ==
    /\ suspend = <<>>
    /\ child = <<>>
    /\ woken = <<>>
    /\ mutex = <<>>
    /\ routine = <<>>

ThreadsIdle == SeqIdle /\ SchedIdle /\ AppIdle /\ CoIdle

InitStore ==
    /\ data = <<>>
    /\ maxlen \in Caps
    /\ uuids = <<>>
    /\ uuid_list = <<>>
    /\ last = NoCall
    /\ GossipIdle
    /\ ThreadsIdle

\* LogDB.append(entry): bool(self.extend((entry,)))
StoreAppend(e) ==
    LET m == merge_logs(data, <<e>>, maxlen) IN
    /\ data' = m.base
    /\ last' = [NoCall EXCEPT !.op = "append", !.entries = <<e>>,
                              !.added = m.added, !.ok = (m.added # {}),
                              !.pre = data]
    /\ UNCHANGED <<maxlen, uuids, uuid_list, gossipVars, threadVars>>

\* LogDBList.extend(entries)
StoreExtend(es) ==
    LET m == merge_logs(data, es, maxlen) IN
    /\ data' = m.base
    /\ last' = [NoCall EXCEPT !.op = "extend", !.entries = es,
                              !.added = m.added, !.pre = data]
    /\ UNCHANGED <<maxlen, uuids, uuid_list, gossipVars, threadVars>>

\* LogDBList.delete(ids)
StoreDelete(idset) ==
    LET r == delete(data, idset) IN
    /\ data' = r.data
    /\ last' = [NoCall EXCEPT !.op = "delete", !.ids = idset,
                              !.removed = r.ret, !.pre = data,
                              !.pre_uuids = uuids]
    /\ UNCHANGED <<maxlen, uuids, uuid_list, gossipVars, threadVars>>

\* LogDBList.query(lfrom, lto, amount)
StoreQuery(lfrom, lto, amount) ==
    /\ last' = [NoCall EXCEPT !.op = "query", !.q = <<lfrom, lto, amount>>,
                              !.ret = query(data, lfrom, lto, amount)]
    /\ UNCHANGED <<data, maxlen, uuids, uuid_list, gossipVars, threadVars>>

\* LogDBList.append_uuid(uid, uuid); the call may raise KeyError, the
\* store stays as the call left it
StoreAppendUuid(uid, uuid) ==
    LET r == append_uuid(uuids, uuid_list, maxlen, uid, uuid) IN
    /\ Len(uuid_list) < MaxUuidList
    /\ uuids' = r.uuids
    /\ uuid_list' = r.list
    /\ last' = [NoCall EXCEPT !.op = "append_uuid", !.uid = uid,
                              !.uuid = uuid, !.ok = r.ret, !.exc = r.exc,
                              !.pre_uuids = uuids]
    /\ UNCHANGED <<data, maxlen, gossipVars, threadVars>>

\* SpecStore: the calls that change the entries
NextStore ==
    \/ \E e \in Entries : StoreAppend(e)
    \/ \E es \in Batches : StoreExtend(es)
    \/ \E idset \in SUBSET Ids : StoreDelete(idset)

SpecStore == InitStore /\ [][NextStore]_vars

\* SpecQuery: queries on a store filled by append
NextQuery ==
    \/ \E e \in Entries : StoreAppend(e)
    \/ \E lfrom \in QueryBounds, lto \in QueryBounds, amount \in Amounts :
            StoreQuery(lfrom, lto, amount)

SpecQuery == InitStore /\ [][NextQuery]_vars

\* SpecUuid: the entries and the UUID map of one store
NextUuid ==
    \/ \E e \in Entries : StoreAppend(e)
    \/ \E idset \in SUBSET Ids : StoreDelete(idset)
    \/ \E uid \in Uids, uuid \in Uuids : StoreAppendUuid(uid, uuid)

SpecUuid == InitStore /\ [][NextUuid]_vars


\* ------------------------------------------------------------------------
\* SpecGossip: Scribes in one room
\* ------------------------------------------------------------------------
\* the clients; a client's number is also the id the backend gives it
Bots == 1..3
\* the delay of scheduler.add(1, ...), in clock ticks
Delay == 2
\* log-done broadcasts counted per bot
MaxDone == 3

\* every message id has one post behind it, the same for all stores
Post(id) == [id |-> id, from |-> ((id - 1) % MaxUid) + 1]
UuidOf(uid) == uid + 10

\* a client payload (the `data` of a unicast or broadcast); fields a
\* message type does not carry are None or empty
Payload(type) ==
    [type |-> type, from |-> None, to |-> None, length |-> None,
     amount |-> None, key |-> None,
     reqto |-> None, tok |-> None, data |-> <<>>, uuids |-> <<>>]

NoData == Payload("none")

\* an entry of EventScheduler.pending: the callback and the ticks left
\* until it is due
Event(due, kind, uid, d) == [due |-> due, kind |-> kind, uid |-> uid, d |-> d]

\* a frame from the backend
Frame(sender, p) == [from |-> sender, p |-> p]

\* a message handed to send_unicast (to a client) or send_broadcast (None)
Send(to, p) == [to |-> to, p |-> p]

\* what running one callback does: the bot's new fields, the messages it
\* sends, the events it schedules, and its new monitor
Effect(b, sends, adds, m) == [bot |-> b, sends |-> sends, adds |-> adds, mon |-> m]


\* the fields of a Scribe before it connects, with a store holding the
\* posts of the ids S and the UUIDs of the users K
RECURSIVE PostsOf(_)
PostsOf(S) ==
    IF S = {} THEN <<>>
    ELSE LET x == CHOOSE y \in S : \A z \in S : y >= z
         IN  Append(PostsOf(S \ {x}), Post(x))

RECURSIVE UuidsOf(_)
UuidsOf(K) ==
    IF K = {} THEN <<>>
    ELSE LET x == CHOOSE y \in K : \A z \in K : y >= z
         IN  Append(UuidsOf(K \ {x}), <<x, UuidOf(x)>>)

NewBot(S, K, cap) ==
    LET u == extend_uuid(<<>>, <<>>, cap, UuidsOf(K), <<>>)
    IN  [identity |-> None,
         data |-> merge_logs(<<>>, PostsOf(S), cap).base,
         uuids |-> u.uuids,
         uuid_list |-> u.list,
         cand |-> NoData,
         logs_done |-> FALSE,
         push |-> <<>>,
         crashed |-> FALSE]

\* What is recorded of a bot's run:
\*   init        the ids its store held when it was created
\*   met         for a bot that pulls, the other clients in the room when
\*               it got its identity
\*   done_count  the log-done broadcasts it has sent
\*   infos       the log-infos processed in the current round
\*   reqs        the peers it has sent a log-request to in the current round
\*   pushed      the peers it has sent a dump of its store to, in order
\*   inquiries   the log-inquiry broadcasts it has sent
\*   open        _logs_begin has started a round that _logs_finish has not
\*               ended yet
\*   g_infos     a group of log-infos: those processed from one that became
\*               candidate until the first delayed send of one of them
\*               fired (g_open: that has not happened yet)
\*   g_left      the tokens of the group's delayed sends that have not fired
\*   g_reqs      the peers the group's delayed sends sent a log-request to
\*   g_broken    before the group's sends had all fired, a new round was
\*               started or a log-info outside the group became candidate
NewMon(S) ==
    [init |-> S, met |-> {}, done_count |-> 0, infos |-> <<>>, reqs |-> <<>>,
     pushed |-> <<>>, inquiries |-> 0, open |-> FALSE,
     g_open |-> FALSE, g_infos |-> <<>>, g_left |-> {}, g_reqs |-> <<>>,
     g_broken |-> FALSE]

\* the record of a processed log-info; tok is None if it was not accepted
GroupOnInfo(m, info) ==
    IF m.g_open
    THEN [m EXCEPT !.g_infos = Append(@, info),
                   !.g_left = IF info.tok = None THEN @ ELSE @ \cup {info.tok}]
    ELSE IF m.g_left = {} /\ info.tok # None
    THEN [m EXCEPT !.g_open = TRUE, !.g_infos = <<info>>,
                   !.g_left = {info.tok}, !.g_reqs = <<>>,
                   !.g_broken = FALSE]
    ELSE IF m.g_left # {} /\ info.tok # None
    THEN [m EXCEPT !.g_broken = TRUE]
    ELSE m

\* the record of a delayed send that fired, for the log-info with token tok
GroupOnSend(m, tok, sent, uid) ==
    IF tok \in m.g_left
    THEN [m EXCEPT !.g_open = FALSE, !.g_left = @ \ {tok},
                   !.g_reqs = IF sent THEN Append(@, uid) ELSE @]
    ELSE m

\* the record of a round start
GroupOnBegin(m) ==
    IF m.g_left # {} THEN [m EXCEPT !.g_broken = TRUE] ELSE m

\* ---- the rooms explored ----
\* Bot 1 pulls, with or without a capacity; bot 3 serves (dont_pull); bot 2
\* either serves too or pulls as bot 1 does.
Puller(cap) == [dont_pull |-> FALSE, maxlen |-> cap, push |-> <<>>]
Server == [dont_pull |-> TRUE, maxlen |-> None, push |-> <<>>]
GossipCaps == {None, MaxCap}
\* the authors whose UUIDs the servers of a puller with capacity cap know
InitUidSets(cap) == IF cap = None THEN {{}, Uids} ELSE {{}}
\* the id sets a lone puller starts with, and those of its two servers
PullerStores == {{3}, {2, 3}}
ServerStores == {<<{2}, {1}>>, <<{1, 2}, {1}>>}
\* the id sets each of two pullers starts with (their server holds nothing)
PeerStores == {{}, {3}, {1, 2}, {2, 3}}

OnePuller(c) ==
    {[cfg |-> <<Puller(c), Server, Server>>,
      S |-> <<s, p[1], p[2]>>,
      K |-> <<{}, k, k>>] :
        s \in PullerStores, p \in ServerStores, k \in InitUidSets(c)}

TwoPullers ==
    {[cfg |-> <<Puller(None), Puller(None), Server>>,
      S |-> <<s, t, {}>>,
      K |-> <<{}, {}, {}>>] : s \in PeerStores, t \in PeerStores}

Scenarios == UNION {OnePuller(c) : c \in GossipCaps} \cup TwoPullers

InitGossip ==
    /\ room = {}
    /\ inbox = [b \in Bots |-> <<>>]
    /\ \E sc \in Scenarios :
        /\ cfg = sc.cfg
        /\ bot = [b \in Bots |-> NewBot(sc.S[b], sc.K[b], sc.cfg[b].maxlen)]
        /\ mon = [b \in Bots |-> NewMon(IdsOf(bot[b].data))]
    /\ pending = [b \in Bots |-> <<>>]
    /\ data = <<>>
    /\ maxlen = None
    /\ uuids = <<>>
    /\ uuid_list = <<>>
    /\ last = NoCall
    /\ ThreadsIdle

\* ---- the Scribe's callbacks, as effects on one bot ----

\* Scribe._logs_begin
logs_begin(bs, m) ==
    Effect([bs EXCEPT !.cand = NoData],
           <<Send(None, Payload("log-query"))>>,
           <<Event(Delay, "send_request", None, NoData)>>,
           [GroupOnBegin(m) EXCEPT !.infos = <<>>, !.reqs = <<>>,
                                   !.open = TRUE])

\* Scribe._logs_finish (dont_stay is off); the log-done broadcast is
\* counted, no handler of a peer reads it
logs_finish(bs, m) ==
    Effect([bs EXCEPT !.logs_done = TRUE], <<>>, <<>>,
           [m EXCEPT !.done_count = @ + 1, !.open = FALSE])

\* the dump of the store _push_logs sends to peer
Dump(bs, peer) ==
    LET bnd == bounds(bs.data)
        logs == query(bs.data, bnd[1], bnd[2], None)
    IN  Send(peer, [Payload("log") EXCEPT
                       !.data = logs,
                       !.uuids = query_uuid(bs.uuids, logs, <<>>)])

\* _push_logs taking the last peer of the list: push_logs.pop()
push_logs_pop_last(bs, m) ==
    IF bs.push = <<>> THEN Effect(bs, <<>>, <<>>, m)
    ELSE LET peer == bs.push[Len(bs.push)]
             rest == SubSeq(bs.push, 1, Len(bs.push) - 1)
         IN  Effect([bs EXCEPT !.push = rest],
                    IF rest # <<>> THEN <<Dump(bs, peer)>>
                    ELSE <<Dump(bs, peer), Send(None, Payload("log-inquiry"))>>,
                    IF rest # <<>>
                    THEN <<Event(0, "push_logs", None, NoData)>> ELSE <<>>,
                    [m EXCEPT !.pushed = Append(@, peer),
                              !.inquiries = IF rest = <<>> THEN @ + 1 ELSE @])

\* Scribe._push_logs(), as _execute calls it: the first peer of push_logs
\* is taken off the list and sent the store; then the callback is queued
\* again, or after the last peer log-inquiry is broadcast
push_logs(bs, m) ==
    IF bs.push = <<>> THEN Effect(bs, <<>>, <<>>, m)
    ELSE LET peer == Head(bs.push)
             rest == Tail(bs.push)
         IN  Effect([bs EXCEPT !.push = rest],
                    IF rest # <<>> THEN <<Dump(bs, peer)>>
                    ELSE <<Dump(bs, peer), Send(None, Payload("log-inquiry"))>>,
                    IF rest # <<>>
                    THEN <<Event(0, "push_logs", None, NoData)>> ELSE <<>>,
                    [m EXCEPT !.pushed = Append(@, peer),
                              !.inquiries = IF rest = <<>> THEN @ + 1 ELSE @])

\* _process_log_query without the comparison of uid with the own id
process_log_query_any(bs, m, uid) ==
    LET bnd == bounds(bs.data) IN
    IF bnd[3] # None /\ bnd[3] # 0
    THEN Effect(bs,
                <<Send(uid, [Payload("log-info") EXCEPT
                                !.from = bnd[1], !.to = bnd[2],
                                !.length = bnd[3]])>>,
                <<>>, m)
    ELSE Effect(bs, <<>>, <<>>, m)

\* Scribe._process_log_query
process_log_query(bs, m, uid) ==
    LET bnd == bounds(bs.data) IN
    IF bnd[3] # None /\ bnd[3] # 0 /\ uid # bs.identity
    THEN Effect(bs,
                <<Send(uid, [Payload("log-info") EXCEPT
                                !.from = bnd[1], !.to = bnd[2],
                                !.length = bnd[3]])>>,
                <<>>, m)
    ELSE Effect(bs, <<>>, <<>>, m)

\* a token for a new log-info object: one that neither a pending
\* callback nor the candidate refers to
FreshTok(evs, cand) ==
    LET used == {evs[i].d.tok : i \in 1..Len(evs)} \cup {cand.tok}
    IN  CHOOSE t \in 0..(Len(evs) + 1) :
            t \notin used /\ \A u \in 0..(t - 1) : u \in used

\* _process_log_info taking a log-info whose `from` equals the candidate's
process_log_info_le(bs, m, evs, d, uid) ==
    IF d.from = None THEN Effect(bs, <<>>, <<>>, m)
    ELSE IF bs.cand = NoData \/ d.from <= bs.cand.from
    THEN LET nd == [d EXCEPT !.reqto = bounds(bs.data)[1],
                             !.tok = FreshTok(evs, bs.cand)]
             info == [from |-> d.from, uid |-> uid, tok |-> nd.tok]
         IN  Effect([bs EXCEPT !.cand = nd], <<>>,
                    <<Event(Delay, "send_request", uid, nd)>>,
                    [GroupOnInfo(m, info)
                        EXCEPT !.infos = Append(@, info)])
    ELSE LET info == [from |-> d.from, uid |-> uid, tok |-> None]
         IN  Effect(bs, <<>>, <<>>,
                    [GroupOnInfo(m, info)
                        EXCEPT !.infos = Append(@, info)])

\* Scribe._process_log_info
process_log_info(bs, m, evs, d, uid) ==
    IF d.from = None THEN Effect(bs, <<>>, <<>>, m)
    ELSE IF bs.cand = NoData \/ d.from < bs.cand.from
    THEN LET nd == [d EXCEPT !.reqto = bounds(bs.data)[1],
                             !.tok = FreshTok(evs, bs.cand)]
             info == [from |-> d.from, uid |-> uid, tok |-> nd.tok]
         IN  Effect([bs EXCEPT !.cand = nd], <<>>,
                    <<Event(Delay, "send_request", uid, nd)>>,
                    [GroupOnInfo(m, info)
                        EXCEPT !.infos = Append(@, info)])
    ELSE LET info == [from |-> d.from, uid |-> uid, tok |-> None]
         IN  Effect(bs, <<>>, <<>>,
                    [GroupOnInfo(m, info)
                        EXCEPT !.infos = Append(@, info)])

\* _send_request without the check that its log-info is still the
\* candidate
send_request_unchecked(bs, m, d, uid) ==
    IF d = NoData \/ uid = None THEN logs_finish(bs, m)
    ELSE Effect(bs,
                <<Send(uid, [Payload("log-request") EXCEPT !.to = d.reqto])>>,
                <<>>,
                [GroupOnSend(m, d.tok, TRUE, uid)
                    EXCEPT !.reqs = Append(@, uid)])

\* Scribe._send_request
send_request(bs, m, d, uid) ==
    IF d = NoData \/ uid = None THEN logs_finish(bs, m)
    ELSE IF bs.cand # d
    THEN Effect(bs, <<>>, <<>>, GroupOnSend(m, d.tok, FALSE, uid))
    ELSE Effect(bs,
                <<Send(uid, [Payload("log-request") EXCEPT !.to = d.reqto])>>,
                <<>>,
                [GroupOnSend(m, d.tok, TRUE, uid)
                    EXCEPT !.reqs = Append(@, uid)])

\* _process_log_request answering with the whole store
process_log_request_all(bs, m, d, uid) ==
    LET logs == query(bs.data, None, None, None)
    IN  Effect(bs,
               <<Send(uid, [Payload("log") EXCEPT
                               !.data = logs,
                               !.uuids = query_uuid(bs.uuids, logs, <<>>)])>>,
               <<>>, m)

\* _process_log_request putting the key into the reply when it is truthy
process_log_request_truthy(bs, m, d, uid) ==
    LET logs == query(bs.data, d.from, d.to, d.amount)
        key == IF d.key # None /\ d.key # 0 THEN d.key ELSE None
    IN  Effect(bs,
               <<Send(uid, [Payload("log") EXCEPT
                               !.data = logs,
                               !.uuids = query_uuid(bs.uuids, logs, <<>>),
                               !.key = key])>>,
               <<>>, m)

\* Scribe._process_log_request and send_logs; data.get('key') is None for
\* a request without a key and for one whose key is null, and the reply
\* then has no key
process_log_request(bs, m, d, uid) ==
    LET logs == query(bs.data, d.from, d.to, d.amount)
        key == IF d.key # None THEN d.key ELSE None
    IN  Effect(bs,
               <<Send(uid, [Payload("log") EXCEPT
                               !.data = logs,
                               !.uuids = query_uuid(bs.uuids, logs, <<>>),
                               !.key = key])>>,
               <<>>, m)

\* Scribe._process_log with Scribe.process_logs; a KeyError out of
\* extend_uuid ends the callback where it is raised
process_log(bs, m, dont_pull, cap, d) ==
    LET mg == merge_logs(bs.data, SortById(d.data), cap)
        ug == extend_uuid(bs.uuids, bs.uuid_list, cap, d.uuids, <<>>)
        nb == [bs EXCEPT !.data = mg.base, !.uuids = ug.uuids,
                         !.uuid_list = ug.list]
    IN  IF ug.exc THEN Effect([nb EXCEPT !.crashed = TRUE], <<>>, <<>>, m)
        ELSE IF dont_pull THEN Effect(nb, <<>>, <<>>, m)
        ELSE IF mg.added # {} \/ ug.ret # <<>> THEN logs_begin(nb, m)
        ELSE logs_finish(nb, m)

\* the callback of a pending event
Callback(b, ev, evs) ==
    CASE ev.kind = "push_logs" -> push_logs(bot[b], mon[b])
      [] ev.kind = "process_log_query" ->
            process_log_query(bot[b], mon[b], ev.uid)
      [] ev.kind = "process_log_info" ->
            process_log_info(bot[b], mon[b], evs, ev.d, ev.uid)
      [] ev.kind = "process_log_request" ->
            process_log_request(bot[b], mon[b], ev.d, ev.uid)
      [] ev.kind = "process_log" ->
            process_log(bot[b], mon[b], cfg[b].dont_pull, cfg[b].maxlen, ev.d)
      [] ev.kind = "send_request" ->
            send_request(bot[b], mon[b], ev.d, ev.uid)

\* ---- the backend ----
\* the inboxes after the backend has passed on the messages sends of
\* sender: a broadcast goes to every client of the room, the sender
\* included, a unicast to its destination if that is in the room
RECURSIVE Deliver(_, _, _, _)
Deliver(inb, members, sender, sends) ==
    IF sends = <<>> THEN inb
    ELSE LET s == Head(sends)
             nxt == [r \in Bots |->
                        IF r \in members /\ (s.to = None \/ s.to = r)
                        THEN Append(inb[r], Frame(sender, s.p))
                        ELSE inb[r]]
         IN  Deliver(nxt, members, sender, Tail(sends))

RemoveAt(seq, i) == SubSeq(seq, 1, i - 1) \o SubSeq(seq, i + 1, Len(seq))

\* ---- actions ----
\* the position of the event EventScheduler.run_once pops next: the
\* earliest-added one that is due
DueIndex(evs) ==
    CHOOSE i \in 1..Len(evs) :
        /\ evs[i].due = 0
        /\ \A j \in 1..(i - 1) : evs[j].due # 0

HasDue(evs) == \E i \in 1..Len(evs) : evs[i].due = 0

\* Every running scheduler has run the callbacks that are due.  A frame is
\* read, and the clock advances, only then: run_once pops a due callback
\* ahead of one added later (its (time, seq) is smaller), so reading first
\* would lead to the same order of callbacks.
Drained == \A b \in Bots : bot[b].crashed \/ ~HasDue(pending[b])

\* a Scribe connects: the backend adds it to the room and sends it its
\* identity
Connect(b) ==
    /\ b \notin room
    /\ Drained
    /\ room' = room \cup {b}
    /\ inbox' = [inbox EXCEPT ![b] = <<Frame(None, Payload("identity"))>>]
    /\ UNCHANGED <<cfg, bot, pending, mon, storeVars, threadVars>>

\* Scribe.handle_identity, run by the receiving thread
HandleIdentity(b) ==
    LET bs == [bot[b] EXCEPT !.identity = b]
        m == [mon[b] EXCEPT !.met = IF cfg[b].dont_pull THEN {}
                                   ELSE room \ {b}]
        push == Event(0, "push_logs", None, NoData)
        eff == IF cfg[b].dont_pull THEN Effect(bs, <<>>, <<>>, m)
               ELSE logs_begin(bs, m)
    IN  /\ bot' = [bot EXCEPT ![b] = eff.bot]
        /\ mon' = [mon EXCEPT ![b] = eff.mon]
        /\ pending' = [pending EXCEPT ![b] = (@ \o <<push>>) \o eff.adds]
        /\ inbox' = Deliver([inbox EXCEPT ![b] = Tail(@)], room, b, eff.sends)

\* Scribe.on_client_message, run by the receiving thread: the handler of
\* the payload is handed to the scheduler with add_now; a log-inquiry is
\* answered at once if _logs_done is set
OnClientMessage(b, f) ==
    LET kind == CASE f.p.type = "log-query" -> "process_log_query"
                  [] f.p.type = "log-info" ->
                        IF cfg[b].dont_pull THEN "none" ELSE "process_log_info"
                  [] f.p.type = "log-request" -> "process_log_request"
                  [] f.p.type = "log" -> "process_log"
                  [] OTHER -> "none"
    IN  /\ pending' = [pending EXCEPT ![b] =
                          IF kind = "none" THEN @
                          ELSE Append(@, Event(0, kind, f.from, f.p))]
        /\ inbox' = Deliver([inbox EXCEPT ![b] = Tail(@)], room, b,
                            IF f.p.type = "log-inquiry" /\ bot[b].logs_done
                            THEN <<Send(f.from, Payload("log-done"))>>
                            ELSE <<>>)
        /\ UNCHANGED <<bot, mon>>

\* InstantClient.run reads the next frame and dispatches it
Receive(b) ==
    /\ b \in room
    /\ inbox[b] # <<>>
    /\ Drained
    /\ IF Head(inbox[b]).p.type = "identity"
       THEN HandleIdentity(b)
       ELSE OnClientMessage(b, Head(inbox[b]))
    /\ UNCHANGED <<room, cfg, storeVars, threadVars>>

\* EventScheduler.run_once pops the head and runs its callback
Run(b) ==
    /\ b \in room
    /\ ~bot[b].crashed
    /\ HasDue(pending[b])
    /\ LET i == DueIndex(pending[b])
           rest == RemoveAt(pending[b], i)
           eff == Callback(b, pending[b][i], rest)
       IN  /\ eff.mon.done_count <= MaxDone
           /\ bot' = [bot EXCEPT ![b] = eff.bot]
           /\ mon' = [mon EXCEPT ![b] = eff.mon]
           /\ pending' = [pending EXCEPT ![b] = rest \o eff.adds]
           /\ inbox' = Deliver(inbox, room, b, eff.sends)
    /\ UNCHANGED <<room, cfg, storeVars, threadVars>>

\* the clock advances by one tick once every running scheduler has run
\* the callbacks that are due
Tick ==
    /\ Drained
    /\ \E b \in Bots : pending[b] # <<>> /\ ~bot[b].crashed
    /\ pending' = [b \in Bots |->
                      [i \in 1..Len(pending[b]) |->
                          [pending[b][i] EXCEPT !.due = Max(@ - 1, 0)]]]
    /\ UNCHANGED <<room, inbox, cfg, bot, mon, storeVars, threadVars>>

NextGossip ==
    \/ \E b \in Bots : Connect(b)
    \/ \E b \in Bots : Receive(b)
    \/ \E b \in Bots : Run(b)
    \/ Tick

SpecGossip == InitGossip /\ [][NextGossip]_vars

\* ---- SpecPush: a room with a Scribe started with --push-logs ----
\* Bot 1 does not pull and pushes its store to the peers of its list;
\* bot 2 pulls; bot 3 only listens.
PushLists == {<<>>, <<2>>, <<2, 3>>, <<3, 2>>}
Pusher(list) == [dont_pull |-> TRUE, maxlen |-> None, push |-> list]

InitPush ==
    /\ room = {}
    /\ inbox = [b \in Bots |-> <<>>]
    /\ \E list \in PushLists, s \in {{}, {3}} :
        /\ cfg = <<Pusher(list), Puller(None), Server>>
        /\ bot = <<[NewBot({1, 2}, {}, None) EXCEPT !.push = list],
                   NewBot(s, {}, None), NewBot({}, {}, None)>>
        /\ mon = [b \in Bots |-> NewMon(IdsOf(bot[b].data))]
    /\ pending = [b \in Bots |-> <<>>]
    /\ data = <<>>
    /\ maxlen = None
    /\ uuids = <<>>
    /\ uuid_list = <<>>
    /\ last = NoCall
    /\ ThreadsIdle

SpecPush == InitPush /\ [][NextGossip]_vars

\* ------------------------------------------------------------------------
\* SpecSeq: threads calling send_seq on one InstantClient
\* ------------------------------------------------------------------------
Threads == 1..2
\* send_seq calls made by one thread
MaxCalls == 2

\* the values the variables of store and room keep while threads are run
StoreIdle ==
    /\ data = <<>>
    /\ maxlen = None
    /\ uuids = <<>>
    /\ uuid_list = <<>>
    /\ last = NoCall

InitSeq ==
    /\ seq_value = SeqStart
    /\ seq_lock = None
    /\ caller = [t \in Threads |-> [pc |-> "idle", tmp |-> None,
                                    seq |-> None, calls |-> 0]]
    /\ handed = <<>>
    /\ wire = <<>>
    /\ StoreIdle
    /\ GossipIdle
    /\ SchedIdle
    /\ AppIdle
    /\ CoIdle

\* `with self._lock:` ignored
LockIgnored(lock) == TRUE

\* `with self._lock:` may be entered
LockFree(lock) == lock = None

\* a thread calls send_seq, which calls self.sequence()
SendSeqCall(t) ==
    /\ caller[t].pc = "idle"
    /\ caller[t].calls < MaxCalls
    /\ caller' = [caller EXCEPT ![t].pc = "acquire", ![t].calls = @ + 1]
    /\ UNCHANGED <<seq_value, seq_lock, handed, wire, storeVars, gossipVars,
                   schedVars, appVars, coVars>>

\* AtomicSequence.__call__: `with self._lock:`
SeqAcquire(t) ==
    /\ caller[t].pc = "acquire"
    /\ LockFree(seq_lock)
    /\ seq_lock' = t
    /\ caller' = [caller EXCEPT ![t].pc = "load"]
    /\ UNCHANGED <<seq_value, handed, wire, storeVars, gossipVars, schedVars, appVars, coVars>>

\* `self.value += 1`: the value is read ...
SeqLoad(t) ==
    /\ caller[t].pc = "load"
    /\ caller' = [caller EXCEPT ![t].pc = "store", ![t].tmp = seq_value]
    /\ UNCHANGED <<seq_value, seq_lock, handed, wire, storeVars, gossipVars,
                   schedVars, appVars, coVars>>

\* ... and the sum is written back
SeqStore(t) ==
    /\ caller[t].pc = "store"
    /\ seq_value' = caller[t].tmp + 1
    /\ caller' = [caller EXCEPT ![t].pc = "return"]
    /\ UNCHANGED <<seq_lock, handed, wire, storeVars, gossipVars, schedVars, appVars, coVars>>

\* `return self.value`, leaving the `with` block
SeqReturn(t) ==
    /\ caller[t].pc = "return"
    /\ caller' = [caller EXCEPT ![t].pc = "send", ![t].seq = seq_value]
    /\ handed' = Append(handed, [t |-> t, seq |-> seq_value])
    /\ seq_lock' = None
    /\ UNCHANGED <<seq_value, wire, storeVars, gossipVars, schedVars, appVars, coVars>>

\* send_seq: content['seq'] = seq; self.send_raw(...); return seq
SendRaw(t) ==
    /\ caller[t].pc = "send"
    /\ wire' = Append(wire, caller[t].seq)
    /\ caller' = [caller EXCEPT ![t].pc = "idle"]
    /\ UNCHANGED <<seq_value, seq_lock, handed, storeVars, gossipVars, schedVars, appVars, coVars>>

NextSeq ==
    \/ \E t \in Threads : SendSeqCall(t)
    \/ \E t \in Threads : SeqAcquire(t)
    \/ \E t \in Threads : SeqLoad(t)
    \/ \E t \in Threads : SeqStore(t)
    \/ \E t \in Threads : SeqReturn(t)
    \/ \E t \in Threads : SendRaw(t)

SpecSeq == InitSeq /\ [][NextSeq]_vars

\* ------------------------------------------------------------------------
\* SpecSched: one EventScheduler, the thread in run() and calling threads
\* ------------------------------------------------------------------------
\* Every `with self:` block is one step: the blocks exclude each other
\* through the lock of self.cond, and cond.wait() gives the lock up.  What
\* run() and run_once() do outside the blocks are steps of their own.

\* events created by add_abs
MaxEvents == 2
\* the clock runs from 0 to MaxTime
MaxTime == 2
\* the delays events are added with
Delays == 0..1

IdleRunner ==
    [pc |-> "start", f |-> TRUE, wait |-> None, head |-> None,
     deadline |-> None, notified |-> FALSE, join |-> "idle"]

InitSched ==
    /\ events = <<>>
    /\ sched = [pending |-> {}, forever |-> TRUE, running |-> FALSE]
    /\ runner = IdleRunner
    /\ now = 0
    /\ last_cancel = NoCancel
    /\ StoreIdle
    /\ GossipIdle
    /\ SeqIdle
    /\ CoIdle
    /\ AppIdle

\* self.cond.notifyAll(): a thread in cond.wait() is woken, a thread
\* anywhere else notices nothing
notifyAll(r) ==
    LET r1 == IF r.pc = "waiting" THEN [r EXCEPT !.notified = TRUE] ELSE r
    IN  IF r1.join = "waiting" THEN [r1 EXCEPT !.join = "woken"] ELSE r1

\* a wrong head: among the events of the least time, the newest one
HeadOfNewest(evs, pend) ==
    CHOOSE e \in pend :
        \A o \in pend : \/ evs[e].time < evs[o].time
                        \/ evs[e].time = evs[o].time /\ e >= o

\* self.pending[0]: the least Event by sortkey (time, seq)
HeadOf(evs, pend) ==
    CHOOSE e \in pend :
        \A o \in pend : \/ evs[e].time < evs[o].time
                        \/ evs[e].time = evs[o].time /\ e <= o

\* run_once passing over a canceled event: never
SkipNever(ev) == FALSE

\* run_once: `if head.canceled: continue`
SkipCanceled(ev) == ev.canceled

\* ---- the calling threads ----
\* EventScheduler.add_abs(self.time() + delay, callback): add() and
\* add_now()
AddAbs(delay) ==
    /\ Len(events) < MaxEvents
    /\ events' = Append(events, [time |-> now + delay, handled |-> FALSE,
                                 canceled |-> FALSE, started |-> FALSE,
                                 cancel_ok |-> FALSE])
    /\ sched' = [sched EXCEPT !.pending = @ \cup {Len(events) + 1}]
    /\ runner' = notifyAll(runner)
    /\ UNCHANGED <<now, last_cancel, storeVars, gossipVars, seqVars, coVars, appVars>>

\* EventScheduler.cancel(event)
Cancel(e) ==
    LET ret == ~events[e].handled IN
    /\ e <= Len(events)
    /\ events' = [events EXCEPT ![e].canceled = TRUE,
                                ![e].cancel_ok = @ \/ ret]
    /\ last_cancel' = [e |-> e, ret |-> ret, popped |-> e \notin sched.pending,
                       started |-> events[e].started]
    /\ runner' = notifyAll(runner)
    /\ UNCHANGED <<sched, now, storeVars, gossipVars, seqVars, coVars, appVars>>

\* EventScheduler.shutdown(): set_forever(False)
Shutdown ==
    /\ sched.forever
    /\ sched' = [sched EXCEPT !.forever = FALSE]
    /\ runner' = notifyAll(runner)
    /\ UNCHANGED <<events, now, last_cancel, storeVars, gossipVars, seqVars, coVars, appVars>>

\* time passes
ClockTick ==
    /\ now < MaxTime
    /\ now' = now + 1
    /\ UNCHANGED <<events, sched, runner, last_cancel,
                   storeVars, gossipVars, seqVars, coVars, appVars>>

\* ---- the thread in run() ----
\* run(): with self: self.running = True
RunStart ==
    /\ runner.pc = "start"
    /\ sched' = [sched EXCEPT !.running = TRUE]
    /\ runner' = [runner EXCEPT !.pc = "loop"]
    /\ UNCHANGED <<events, now, last_cancel, storeVars, gossipVars, seqVars, coVars, appVars>>

\* run(): f = self.forever, then run_once(f) with wait = None
RunLoop ==
    /\ runner.pc = "loop"
    /\ runner' = [runner EXCEPT !.pc = "check", !.f = sched.forever,
                                !.wait = None]
    /\ UNCHANGED <<events, sched, now, last_cancel,
                   storeVars, gossipVars, seqVars, coVars, appVars>>

\* run_once(): one pass of the `with self:` block of its loop
RunOnceCheck ==
    /\ runner.pc = "check"
    /\ IF sched.pending = {}
       THEN /\ runner' = [runner EXCEPT !.pc = "decide"]
            /\ UNCHANGED <<events, sched>>
       ELSE LET head == HeadOf(events, sched.pending) IN
            IF events[head].time > now /\ ~events[head].canceled
            THEN /\ runner' = [runner EXCEPT !.pc = "decide",
                                            !.wait = events[head].time - now]
                 /\ UNCHANGED <<events, sched>>
            ELSE /\ sched' = [sched EXCEPT !.pending = @ \ {head}]
                 /\ events' = [events EXCEPT ![head].handled = TRUE]
                 /\ runner' = IF SkipCanceled(events[head])
                              THEN runner
                              ELSE [runner EXCEPT !.pc = "call",
                                                  !.head = head]
    /\ UNCHANGED <<now, last_cancel, storeVars, gossipVars, seqVars, coVars, appVars>>

\* run_once(): head(), outside the lock
RunCallback ==
    /\ runner.pc = "call"
    /\ events' = [events EXCEPT ![runner.head].started = TRUE]
    /\ runner' = [runner EXCEPT !.pc = "check", !.head = None]
    /\ UNCHANGED <<sched, now, last_cancel, storeVars, gossipVars, seqVars, coVars, appVars>>

\* run_once(): `if wait is None and not hangup: return False`, and run():
\* `if not self.run_once(f) and not f: break`
RunOnceDecide ==
    /\ runner.pc = "decide"
    /\ runner' = IF runner.wait = None /\ ~runner.f
                 THEN [runner EXCEPT !.pc = "finish"]
                 ELSE [runner EXCEPT !.pc = "sleep"]
    /\ UNCHANGED <<events, sched, now, last_cancel,
                   storeVars, gossipVars, seqVars, coVars, appVars>>

\* _sleep(): with self: self.cond.wait(delay) begins
RunSleep ==
    /\ runner.pc = "sleep"
    /\ runner' = [runner EXCEPT !.pc = "waiting", !.notified = FALSE,
                     !.deadline = IF runner.wait = None THEN None
                                  ELSE now + runner.wait]
    /\ UNCHANGED <<events, sched, now, last_cancel,
                   storeVars, gossipVars, seqVars, coVars, appVars>>

\* cond.wait() returns, notified or timed out; _sleep returns
\* bool(self.pending), and run() goes on or breaks
RunWake ==
    /\ runner.pc = "waiting"
    /\ \/ runner.notified
       \/ runner.deadline # None /\ now >= runner.deadline
    /\ runner' = [runner EXCEPT
                     !.pc = IF sched.pending = {} /\ ~runner.f
                            THEN "finish" ELSE "loop",
                     !.notified = FALSE, !.deadline = None]
    /\ UNCHANGED <<events, sched, now, last_cancel,
                   storeVars, gossipVars, seqVars, coVars, appVars>>

\* run(): finally: self.running = False; self.cond.notifyAll()
RunFinish ==
    /\ runner.pc = "finish"
    /\ sched' = [sched EXCEPT !.running = FALSE]
    /\ runner' = notifyAll([runner EXCEPT !.pc = "done"])
    /\ UNCHANGED <<events, now, last_cancel, storeVars, gossipVars, seqVars, coVars, appVars>>

NextSched ==
    \/ \E delay \in Delays : AddAbs(delay)
    \/ \E e \in 1..MaxEvents : Cancel(e)
    \/ Shutdown
    \/ ClockTick
    \/ RunStart
    \/ RunLoop
    \/ RunOnceCheck
    \/ RunCallback
    \/ RunOnceDecide
    \/ RunSleep
    \/ RunWake
    \/ RunFinish

SpecSched == InitSched /\ [][NextSched]_vars

\* ------------------------------------------------------------------------
\* SpecDispatch: one connection of a Scribe between the receive thread
\* (InstantClient.run) and the dispatcher thread (EventScheduler.run)
\* ------------------------------------------------------------------------
\* client messages received on the connection after the identity
MaxFrames == 2
\* Scribe.ping_delay, in ticks of the clock
PingDelay == 1

\* the callbacks the Scribe hands to the scheduler: a protocol handler for
\* frame n (raising or not), _push_logs, _send_request(None), _send_ping
FrameCb(n, bad) == [kind |-> "frame", n |-> n, bad |-> bad]
PushCb == [kind |-> "push", n |-> 0, bad |-> FALSE]
TimerCb == [kind |-> "timer", n |-> 0, bad |-> FALSE]
PingCb == [kind |-> "ping", n |-> 0, bad |-> FALSE]

\* EventScheduler.Event(timestamp, self._seq, callback)
NewEvent(t) ==
    [time |-> t, handled |-> FALSE, canceled |-> FALSE, started |-> FALSE,
     cancel_ok |-> FALSE]

\* one access of the Scribe's state or of its connection: what is touched
\* and the thread that does it
Access(what, thread) == [what |-> what, thread |-> thread]

\* what the steps of the Scribe's two threads leave alone
dispatchRest == <<storeVars, gossipVars, seqVars, coVars, client, logfile, table>>

InitDispatch ==
    /\ events = <<>>
    /\ sched = [pending |-> {}, forever |-> TRUE, running |-> FALSE]
    /\ runner = IdleRunner
    /\ now = 0
    /\ last_cancel = NoCancel
    /\ callbacks = <<>>
    /\ scribe = [rx_pc |-> "connect", rx_t |-> None, rx_cb |-> PushCb,
                 rx_ret |-> "connect", frames |-> 0, ws |-> FALSE,
                 logs_done |-> FALSE, ping_job |-> None, pings |-> 0,
                 executed |-> <<>>, accesses |-> {}, raised |-> FALSE]
    /\ client = <<>>
    /\ logfile = <<>>
    /\ table = <<>>
    /\ StoreIdle
    /\ GossipIdle
    /\ SeqIdle
    /\ CoIdle

\* ---- the receive thread ----
\* Scribe.connect(): scheduler.set_forever(True), then the connection opens
RxConnect ==
    /\ scribe.rx_pc = "connect"
    /\ sched' = [sched EXCEPT !.forever = TRUE]
    /\ runner' = notifyAll(runner)
    /\ scribe' = [scribe EXCEPT !.rx_pc = "identity", !.ws = TRUE]
    /\ UNCHANGED <<events, now, last_cancel, callbacks>>
    /\ UNCHANGED dispatchRest

\* handle_identity: send_broadcast({'type': 'who'}) and the time() call of
\* _execute(self._push_logs)
RxIdentity ==
    /\ scribe.rx_pc = "identity"
    /\ scribe' = [scribe EXCEPT
                     !.rx_pc = "push", !.rx_t = now, !.rx_cb = PushCb,
                     !.rx_ret = "logs_begin",
                     !.accesses = @ \cup {Access("send", "rx")}]
    /\ UNCHANGED <<events, sched, runner, now, last_cancel, callbacks>>
    /\ UNCHANGED dispatchRest

\* add_now(): add_abs(timestamp, callback) with the time read before
RxAddAbs ==
    /\ scribe.rx_pc = "push"
    /\ events' = Append(events, NewEvent(scribe.rx_t))
    /\ callbacks' = Append(callbacks, scribe.rx_cb)
    /\ sched' = [sched EXCEPT !.pending = @ \cup {Len(events) + 1}]
    /\ runner' = notifyAll(runner)
    /\ scribe' = [scribe EXCEPT !.rx_pc = scribe.rx_ret, !.rx_t = None]
    /\ UNCHANGED <<now, last_cancel>>
    /\ UNCHANGED dispatchRest

\* handle_identity: self._logs_begin(), called on the receive thread
RxLogsBegin ==
    /\ scribe.rx_pc = "logs_begin"
    /\ events' = Append(events, NewEvent(now + 1))
    /\ callbacks' = Append(callbacks, TimerCb)
    /\ sched' = [sched EXCEPT !.pending = @ \cup {Len(events) + 1}]
    /\ runner' = notifyAll(runner)
    /\ scribe' = [scribe EXCEPT
                     !.rx_pc = "first_ping",
                     !.accesses = @ \cup {Access("gossip", "rx"),
                                          Access("send", "rx")}]
    /\ UNCHANGED <<now, last_cancel>>
    /\ UNCHANGED dispatchRest

\* handle_identity: self._send_ping(False): the block under _ping_lock
RxSendPing ==
    /\ scribe.rx_pc = "first_ping"
    /\ events' = Append(events, NewEvent(now + PingDelay))
    /\ callbacks' = Append(callbacks, PingCb)
    /\ sched' = [sched EXCEPT !.pending = @ \cup {Len(events) + 1}]
    /\ runner' = notifyAll(runner)
    /\ scribe' = [scribe EXCEPT !.rx_pc = "set_forever",
                                !.ping_job = Len(events) + 1]
    /\ UNCHANGED <<now, last_cancel>>
    /\ UNCHANGED dispatchRest

\* handle_identity: self.scheduler.set_forever(False)
RxSetForever ==
    /\ scribe.rx_pc = "set_forever"
    /\ sched' = [sched EXCEPT !.forever = FALSE]
    /\ runner' = notifyAll(runner)
    /\ scribe' = [scribe EXCEPT !.rx_pc = "idle"]
    /\ UNCHANGED <<events, now, last_cancel, callbacks>>
    /\ UNCHANGED dispatchRest

\* on_client_message for a frame whose handler goes through _execute
\* (nick, post, log-query, log-info, log-request, log, delete): the time()
\* call of add_now
RxClientMessage(bad) ==
    /\ scribe.rx_pc = "idle"
    /\ scribe.frames < MaxFrames
    /\ scribe' = [scribe EXCEPT
                     !.rx_pc = "push", !.rx_t = now,
                     !.rx_cb = FrameCb(scribe.frames + 1, bad),
                     !.rx_ret = "idle", !.frames = @ + 1]
    /\ UNCHANGED <<events, sched, runner, now, last_cancel, callbacks>>
    /\ UNCHANGED dispatchRest

\* on_client_message for log-inquiry: _logs_done is read and the log-done
\* is sent on the receive thread
RxLogInquiry ==
    /\ scribe.rx_pc = "idle"
    /\ scribe.frames < MaxFrames
    /\ scribe' = [scribe EXCEPT
                     !.frames = @ + 1,
                     !.accesses = @ \cup {Access("gossip", "rx")} \cup
                         IF scribe.logs_done THEN {Access("send", "rx")}
                         ELSE {}]
    /\ UNCHANGED <<events, sched, runner, now, last_cancel, callbacks>>
    /\ UNCHANGED dispatchRest

\* the connection ends: InstantClient.run closes the WebSocket
RxEnd ==
    /\ scribe.rx_pc = "idle"
    /\ scribe' = [scribe EXCEPT !.rx_pc = "on_close", !.ws = FALSE]
    /\ UNCHANGED <<events, sched, runner, now, last_cancel, callbacks>>
    /\ UNCHANGED dispatchRest

\* Scribe.on_close: the block under _ping_lock
RxOnClose ==
    /\ scribe.rx_pc = "on_close"
    /\ IF scribe.ping_job # None
       THEN /\ events' = [events EXCEPT
                    ![scribe.ping_job].canceled = TRUE,
                    ![scribe.ping_job].cancel_ok =
                        @ \/ ~events[scribe.ping_job].handled]
            /\ runner' = notifyAll(runner)
       ELSE UNCHANGED <<events, runner>>
    /\ scribe' = [scribe EXCEPT !.rx_pc = "on_close_forever",
                                !.ping_job = None]
    /\ UNCHANGED <<sched, now, last_cancel, callbacks>>
    /\ UNCHANGED dispatchRest

\* Scribe.on_close: self.scheduler.set_forever(False)
RxOnCloseForever ==
    /\ scribe.rx_pc = "on_close_forever"
    /\ sched' = [sched EXCEPT !.forever = FALSE]
    /\ runner' = notifyAll(runner)
    /\ scribe' = [scribe EXCEPT !.rx_pc = "closed"]
    /\ UNCHANGED <<events, now, last_cancel, callbacks>>
    /\ UNCHANGED dispatchRest

\* ---- the dispatcher thread: head() in run_once ----
\* a callback that raises leaves through on_error, which re-raises
DispCallback ==
    /\ runner.pc = "call"
    /\ LET cb == callbacks[runner.head]
           raises == \/ cb.kind = "frame" /\ cb.bad
                     \/ cb.kind = "ping" /\ ~scribe.ws
           did == CASE cb.kind = "frame" -> {Access("store", "disp")}
                    [] cb.kind = "push"  -> {Access("store", "disp"),
                                             Access("send", "disp")}
                    [] cb.kind = "timer" -> {Access("gossip", "disp"),
                                             Access("send", "disp")}
                    [] cb.kind = "ping"  -> {Access("ping", "disp")}
       IN  /\ events' = [events EXCEPT ![runner.head].started = TRUE]
           /\ IF raises
              THEN /\ runner' = [runner EXCEPT !.pc = "raised"]
                   /\ scribe' = [scribe EXCEPT !.raised = TRUE]
              ELSE /\ runner' = [runner EXCEPT
                         !.pc = IF cb.kind = "ping" THEN "ping_again"
                                ELSE "check",
                         !.head = IF cb.kind = "ping" THEN @ ELSE None]
                   /\ scribe' = [scribe EXCEPT
                         !.accesses = @ \cup did,
                         !.executed = IF cb.kind = "frame"
                                      THEN Append(@, cb.n) ELSE @,
                         !.logs_done = @ \/ cb.kind = "timer",
                         !.pings = IF cb.kind = "ping" THEN @ + 1 ELSE @]
    /\ UNCHANGED <<sched, now, last_cancel, callbacks>>
    /\ UNCHANGED dispatchRest

\* _send_ping: the block under _ping_lock, after the ping was sent
DispSendPing ==
    /\ runner.pc = "ping_again"
    /\ events' = Append(events, NewEvent(now + PingDelay))
    /\ callbacks' = Append(callbacks, PingCb)
    /\ sched' = [sched EXCEPT !.pending = @ \cup {Len(events) + 1}]
    /\ runner' = [runner EXCEPT !.pc = "check", !.head = None]
    /\ scribe' = [scribe EXCEPT !.ping_job = Len(events) + 1]
    /\ UNCHANGED <<now, last_cancel>>
    /\ UNCHANGED dispatchRest

\* a run() without its finally block: the exception leaves it as it is
DispRaiseNoFinally ==
    /\ runner.pc = "raised"
    /\ runner' = [runner EXCEPT !.pc = "crashed"]
    /\ UNCHANGED <<events, sched, now, last_cancel, callbacks, scribe>>
    /\ UNCHANGED dispatchRest

\* EventScheduler.on_error re-raises: run_once and run() are left through
\* the finally block of run(): self.running = False; cond.notifyAll()
DispRaise ==
    /\ runner.pc = "raised"
    /\ sched' = [sched EXCEPT !.running = FALSE]
    /\ runner' = notifyAll([runner EXCEPT !.pc = "crashed"])
    /\ UNCHANGED <<events, now, last_cancel, callbacks, scribe>>
    /\ UNCHANGED dispatchRest

\* EventScheduler.join() in a further thread: under the lock, `while
\* self.running: self.cond.wait()`, entered or resumed after a notifyAll
Join ==
    /\ runner.join \in {"idle", "woken"}
    /\ runner' = [runner EXCEPT
                     !.join = IF sched.running THEN "waiting" ELSE "returned"]
    /\ UNCHANGED <<events, sched, now, last_cancel, callbacks, scribe>>
    /\ UNCHANGED dispatchRest

NextDispatch ==
    \/ RxConnect
    \/ RxIdentity
    \/ RxAddAbs
    \/ RxLogsBegin
    \/ RxSendPing
    \/ RxSetForever
    \/ \E bad \in BOOLEAN : RxClientMessage(bad)
    \/ RxLogInquiry
    \/ RxEnd
    \/ RxOnClose
    \/ RxOnCloseForever
    \/ DispCallback
    \/ DispSendPing
    \/ DispRaise
    \/ ClockTick
    \/ RunStart
    \/ RunLoop
    \/ RunOnceCheck
    \/ RunOnceDecide
    \/ RunSleep
    \/ RunWake
    \/ RunFinish

SpecDispatch == InitDispatch /\ [][NextDispatch]_vars

\* SpecJoin: the same, with a thread that calls join() on the scheduler
NextJoin ==
    \/ NextDispatch
    \/ Join

SpecJoin == InitDispatch /\ [][NextJoin]_vars

\* ------------------------------------------------------------------------
\* SpecClient: InstantClient.run() and another thread calling close()
\* ------------------------------------------------------------------------
\* connections made by one run()
MaxConnects == 2

\* what a call in the try block of run() may do: return, raise
\* websocket_server.ConnectionClosedError, raise another Exception
Outcomes == {"ok", "closed", "error"}

\* what recv() may do beyond that: return None at EOF, raise socket.timeout
RecvOutcomes == Outcomes \cup {"eof", "timeout"}

\* what the steps of the client leave alone
clientRest == <<storeVars, gossipVars, seqVars, coVars, schedVars,
                callbacks, scribe, logfile, table>>

\* on_error / on_timeout as overridden: returns (TRUE) or, the default,
\* re-raises (FALSE)
InitClient ==
    /\ \E ka \in BOOLEAN, sw \in BOOLEAN :
           client = [pc |-> "connect", ws |-> FALSE, keepalive |-> ka,
                     swallow |-> sw, final |-> FALSE, escaping |-> FALSE,
                     hist |-> <<>>, connects |-> 0,
                     closed_final |-> FALSE, late |-> FALSE]
    /\ callbacks = <<>>
    /\ scribe = <<>>
    /\ logfile = <<>>
    /\ table = <<>>
    /\ StoreIdle
    /\ GossipIdle
    /\ SeqIdle
    /\ CoIdle
    /\ SchedIdle

\* an exception raised in the try block of run(): ConnectionClosedError is
\* passed over, any other goes to on_error, whose default re-raises; the
\* finally block comes next either way
Raised(c, outcome) ==
    [c EXCEPT !.pc = "finally",
              !.escaping = outcome = "error" /\ ~c.swallow]

\* run(): self.connect() and, when it raises, on_connection_error
ClientConnect(ok) ==
    /\ client.pc = "connect"
    /\ client.connects < MaxConnects
    /\ client' =
         IF ok
         THEN [client EXCEPT !.pc = "on_open", !.ws = TRUE,
                             !.connects = @ + 1,
                             !.hist = Append(@, "connect"),
                             !.late = @ \/ (client.closed_final
                                            /\ client.connects > 0)]
         ELSE IF client.keepalive THEN client
         ELSE [client EXCEPT !.pc = "aborted"]
    /\ UNCHANGED clientRest

\* run(): self.on_open()
ClientOnOpen(outcome) ==
    /\ client.pc = "on_open"
    /\ LET c == [client EXCEPT !.hist = Append(@, "open")]
       IN  client' = IF outcome = "ok" THEN [c EXCEPT !.pc = "recv"]
                     ELSE Raised(c, outcome)
    /\ UNCHANGED clientRest

\* run(): rawmsg = self.recv(); without a connection recv returns None
ClientRecv(outcome) ==
    /\ client.pc = "recv"
    /\ ~client.ws => outcome = "eof"
    /\ client' =
         CASE outcome = "ok" -> [client EXCEPT !.pc = "on_message"]
           [] outcome = "eof" -> [client EXCEPT !.pc = "finally"]
           [] outcome = "timeout" ->
                IF client.swallow THEN [client EXCEPT !.pc = "finally"]
                ELSE Raised(client, "error")
           [] OTHER -> Raised(client, outcome)
    /\ UNCHANGED clientRest

\* run(): self.on_message(rawmsg)
ClientOnMessage(outcome) ==
    /\ client.pc = "on_message"
    /\ client' = IF outcome = "ok" THEN [client EXCEPT !.pc = "recv"]
                 ELSE Raised(client, outcome)
    /\ UNCHANGED clientRest

\* run(): finally: final = not self.keepalive
ClientFinally ==
    /\ client.pc = "finally"
    /\ client' = [client EXCEPT !.pc = "close", !.final = ~client.keepalive]
    /\ UNCHANGED clientRest

\* run(): self.close(final), under _wslock; when ws.close() raises the
\* rest of close() is skipped and on_error is called
ClientClose(raises) ==
    /\ client.pc = "close"
    /\ raises => client.ws
    /\ client' =
         IF raises
         THEN [client EXCEPT !.pc = "on_close",
                             !.escaping = @ \/ ~client.swallow]
         ELSE [client EXCEPT !.pc = "on_close", !.ws = FALSE,
                             !.keepalive = @ /\ ~client.final]
    /\ UNCHANGED clientRest

\* run(): self.on_close(final), then `if final: break`, unless an
\* exception is on its way out of run()
ClientOnClose ==
    /\ client.pc = "on_close"
    /\ client' = [client EXCEPT
                     !.hist = Append(@, "close"),
                     !.pc = IF client.escaping THEN "aborted"
                            ELSE IF client.final THEN "done"
                            ELSE "connect"]
    /\ UNCHANGED clientRest

\* another thread: close(final=True), under _wslock
OtherClose ==
    /\ client.pc \notin {"done", "aborted"}
    /\ ~client.closed_final
    /\ client' = [client EXCEPT !.ws = FALSE, !.keepalive = FALSE,
                                !.closed_final = TRUE]
    /\ UNCHANGED clientRest

NextClient ==
    \/ \E ok \in BOOLEAN : ClientConnect(ok)
    \/ \E outcome \in Outcomes : ClientOnOpen(outcome)
    \/ \E outcome \in RecvOutcomes : ClientRecv(outcome)
    \/ \E outcome \in Outcomes : ClientOnMessage(outcome)
    \/ ClientFinally
    \/ \E raises \in BOOLEAN : ClientClose(raises)
    \/ ClientOnClose
    \/ OtherClose

SpecClient == InitClient /\ [][NextClient]_vars

\* ------------------------------------------------------------------------
\* SpecReplay: the log file a Scribe writes and read_posts_ex reading it
\* ------------------------------------------------------------------------
\* lines of the log file
MaxLines == 3

\* the lines read_posts_ex takes in, as read_logs yields them: the tag and
\* the values of the line
PostLine(tag, e) == [tag |-> tag, id |-> e.id, from |-> e.from, uuid |-> None]
DeleteLine(id) == [tag |-> "DELETE", id |-> id, from |-> None, uuid |-> None]
UuidLine(uid, uuid) == [tag |-> "UUID", id |-> uid, from |-> None,
                        uuid |-> uuid]

\* a dict kept as the sequence of its items in insertion order: d[k] = v
RECURSIVE DictSet(_, _, _)
DictSet(items, k, v) ==
    IF items = <<>> THEN <<<<k, v>>>>
    ELSE IF Head(items)[1] = k THEN <<<<k, v>>>> \o Tail(items)
    ELSE <<Head(items)>> \o DictSet(Tail(items), k, v)

\* the items whose key is in keep
RECURSIVE DictFilter(_, _)
DictFilter(items, keep) ==
    IF items = <<>> THEN <<>>
    ELSE IF Head(items)[1] \in keep
         THEN <<Head(items)>> \o DictFilter(Tail(items), keep)
         ELSE DictFilter(Tail(items), keep)

\* sorted(S) for a set of integers
RECURSIVE Sorted(_)
Sorted(S) ==
    IF S = {} THEN <<>>
    ELSE LET m == CHOOSE x \in S : \A y \in S : x <= y
         IN  <<m>> \o Sorted(S \ {m})

\* [i for i in ret if i['id'] not in delset]
RECURSIVE WithoutIds(_, _)
WithoutIds(ret, delset) ==
    IF ret = <<>> THEN <<>>
    ELSE IF Head(ret).id \in delset THEN WithoutIds(Tail(ret), delset)
    ELSE <<Head(ret)>> \o WithoutIds(Tail(ret), delset)

\* truncate(ret, uuids) inside read_posts_ex, with the list dels
truncate(acc, cap) ==
    LET keys == {acc.uuids[i][1] : i \in 1..Len(acc.uuids)}
        kept == PySliceFrom(Sorted(keys), -cap)
        kset == {kept[i] : i \in 1..Len(kept)}
    IN  [ret |-> PySliceFrom(SortById(WithoutIds(acc.ret, acc.dels)), -cap),
         uuids |-> DictFilter(acc.uuids, kset), dels |-> {}]

\* the loop of read_posts_ex over the lines
RECURSIVE ReadLoop(_, _, _)
ReadLoop(lines, acc, cap) ==
    IF lines = <<>> THEN acc
    ELSE LET l == Head(lines)
             nxt ==
               CASE l.tag \in {"POST", "LOGPOST"} ->
                      LET a == [acc EXCEPT
                                   !.ret = Append(@, [id |-> l.id,
                                                      from |-> l.from])]
                      IN  IF cap # None /\ Len(a.ret) >= 2 * cap
                          THEN truncate(a, cap) ELSE a
                 [] l.tag = "DELETE" ->
                      [acc EXCEPT !.dels = @ \cup {l.id}]
                 [] l.tag = "UUID" ->
                      [acc EXCEPT !.uuids = DictSet(@, l.id, l.uuid)]
                 [] OTHER -> acc
         IN  ReadLoop(Tail(lines), nxt, cap)

\* read_posts_ex(src, maxlen): the entries and the uuid dict
read_posts_ex(lines, cap) ==
    LET acc == ReadLoop(lines, [ret |-> <<>>, uuids |-> <<>>, dels |-> {}],
                        cap)
        fin == IF cap # None THEN truncate(acc, cap) ELSE acc
    IN  [ret |-> SortById(fin.ret), uuids |-> fin.uuids]

\* main(): msgdb.extend(logs); msgdb.extend_uuid(uuids) on a new LogDBList
Reload(lines, cap) ==
    LET r == read_posts_ex(lines, cap)
        m == merge_logs(<<>>, r.ret, cap)
        u == extend_uuid(<<>>, <<>>, cap, r.uuids, <<>>)
    IN  [data |-> m.base, uuids |-> u.uuids, exc |-> u.exc]

\* what the steps of the Scribe's handlers leave alone
replayRest == <<maxlen, last, gossipVars, seqVars, coVars, schedVars,
                callbacks, scribe, client, table>>

InitReplay ==
    /\ InitStore
    /\ logfile = <<>>

\* Scribe._process_post: the POST line, then db.append(post)
ProcessPost(e) ==
    /\ Len(logfile) < MaxLines
    /\ logfile' = Append(logfile, PostLine("POST", e))
    /\ data' = merge_logs(data, <<e>>, maxlen).base
    /\ UNCHANGED <<uuids, uuid_list, replayRest>>

\* the LOGPOST lines of process_logs: one for every added id, in order
RECURSIVE LogPosts(_, _)
LogPosts(logs, added) ==
    IF logs = <<>> THEN <<>>
    ELSE IF Head(logs).id \in added
         THEN <<PostLine("LOGPOST", Head(logs))>>
                  \o LogPosts(Tail(logs), added)
         ELSE LogPosts(Tail(logs), added)

\* Scribe.process_logs(rawlogs, {}): logs.sort(), db.extend(logs), LOGPOST
ProcessLogs(es) ==
    LET logs == SortById(es)
        m == merge_logs(data, logs, maxlen)
        lines == LogPosts(logs, m.added)
    IN  /\ es # <<>>
        /\ Len(logfile) + Len(lines) <= MaxLines
        /\ logfile' = logfile \o lines
        /\ data' = m.base
        /\ UNCHANGED <<uuids, uuid_list, replayRest>>

\* Scribe._process_nick(uid, uuid=uuid): the UUID line when append_uuid
\* returns true; a KeyError in append_uuid leaves the handler
ProcessNick(uid, uuid) ==
    LET r == append_uuid(uuids, uuid_list, maxlen, uid, uuid) IN
    /\ Len(logfile) < MaxLines
    /\ Len(uuid_list) < MaxUuidList
    /\ uuids' = r.uuids
    /\ uuid_list' = r.list
    /\ logfile' = IF r.ret /\ ~r.exc
                  THEN Append(logfile, UuidLine(uid, uuid)) ELSE logfile
    /\ UNCHANGED <<data, replayRest>>

\* Scribe._delete(ids): a DELETE line for every entry db.delete returned
ProcessDelete(idset) ==
    LET r == delete(data, idset) IN
    /\ r.ret # <<>>
    /\ Len(logfile) + Len(r.ret) <= MaxLines
    /\ logfile' = logfile \o [i \in 1..Len(r.ret) |-> DeleteLine(r.ret[i].id)]
    /\ data' = r.data
    /\ UNCHANGED <<uuids, uuid_list, replayRest>>

NextReplay ==
    \/ \E e \in Entries : ProcessPost(e)
    \/ \E es \in Batches : ProcessLogs(es)
    \/ \E uid \in Uids, uuid \in Uuids : ProcessNick(uid, uuid)
    \/ \E idset \in SUBSET Ids : ProcessDelete(idset)

SpecReplay == InitReplay /\ [][NextReplay]_vars

\* ------------------------------------------------------------------------
\* SpecBatch: Scribe.process_logs on either store, with the ids a peer may
\* put into a log batch
\* ------------------------------------------------------------------------
\* most rows the table `logs` is filled with
MaxRows == 4

\* A hex string of the wrong length, '%X' % v: as a string it sorts after
\* every 16-digit id (they start with '0')
Short(v) == MaxId + v
\* a string that is no hex number, such as 'zz': it sorts after the digits
NonHexId == 2 * MaxId + 1
WrongLengthIds == {Short(1)}
\* what e.get('id') may return for an entry of a received batch that is
\* no message id
BadIds == {None} \cup WrongLengthIds \cup {NonHexId}
\* the lowest and the highest message id, and the bad ids
RawEntries == {e \in Entries : e.id \in {1, MaxId}}
                  \cup [id : BadIds, from : {1}]
RawBatches == UNION {[1..n -> RawEntries] : n \in 1..MaxBatch}

\* list.sort() on LogEntry objects raises TypeError when it compares an
\* id that is None with an id that is a string
SortRaises(seq) ==
    /\ \E i \in 1..Len(seq) : seq[i].id = None
    /\ \E i \in 1..Len(seq) : seq[i].id # None

\* LogDBList.extend(entries) -> merge_logs(self.data, entries, self.maxlen);
\* when base.sort() raises, the appended entries stay in base
list_extend(base, add, cap) ==
    LET m == MergeLoop(base, IdsOf(base), {}, add) IN
    IF SortRaises(m.base)
    THEN [data |-> m.base, added |-> {}, exc |-> TRUE]
    ELSE [data |-> merge_logs(base, add, cap).base, added |-> m.added,
          exc |-> FALSE]

\* int(msgid, 16)
HexValue(id) == IF id \in Ids THEN id ELSE id - MaxId

\* LogDBSQLite.make_key(msgid); int() raises ValueError for a string that
\* is no hex number
make_key(id) ==
    IF id = None THEN [key |-> None, exc |-> FALSE]
    ELSE IF id = NonHexId THEN [key |-> None, exc |-> TRUE]
    ELSE [key |-> HexValue(id), exc |-> FALSE]

\* the keys of the table
KeysOf(rows) == {rows[i].id : i \in 1..Len(rows)}

\* the rowid SQLite gives a row inserted with msgid NULL
NewRowid(rows) ==
    IF rows = <<>> THEN 1
    ELSE 1 + CHOOSE k \in KeysOf(rows) : \A j \in KeysOf(rows) : j <= k

\* INSERT OR REPLACE INTO logs of one row; the table is kept by msgid
InsertOrReplace(rows, key, e) ==
    LET k == IF key = None THEN NewRowid(rows) ELSE key
        rest == SelectSeq(rows, LAMBDA r : r.id # k)
    IN  InsertSorted(rest, [id |-> k, from |-> e.from])

\* filter(None, map(self._try_unwrap, entries)) and executemany
RECURSIVE InsertRows(_, _)
InsertRows(rows, entries) ==
    IF entries = <<>> THEN rows
    ELSE LET e == Head(entries)
             k == make_key(e.id)
         IN  IF k.exc THEN InsertRows(rows, Tail(entries))
             ELSE InsertRows(InsertOrReplace(rows, k.key, e), Tail(entries))

\* LogDBSQLite.extend(entries): make_strkey(e['id']) of the first loop is
\* outside of _try_unwrap
sql_extend(rows, entries) ==
    LET idx == 1..Len(entries)
        raises == \E i \in idx : make_key(entries[i].id).exc
        added == {entries[i].id : i \in
                     {j \in idx : \/ entries[j].id = None
                                  \/ make_key(entries[j].id).key
                                        \notin KeysOf(rows)}}
    IN  IF raises THEN [rows |-> rows, added |-> {}, exc |-> TRUE]
        ELSE [rows |-> InsertRows(rows, entries), added |-> added,
              exc |-> FALSE]

\* main(): the store is a LogDBList, or a LogDBSQLite with --msgdb
InitBatch ==
    /\ \E db \in {"list", "sqlite"} :
        /\ scribe = [db |-> db]
        /\ maxlen \in (IF db = "list" THEN {None, MaxCap} ELSE {None})
    /\ data = <<>>
    /\ table = <<>>
    /\ uuids = <<>>
    /\ uuid_list = <<>>
    /\ last = NoCall
    /\ GossipIdle
    /\ SeqIdle
    /\ CoIdle
    /\ SchedIdle
    /\ callbacks = <<>>
    /\ client = <<>>
    /\ logfile = <<>>

\* Scribe.process_logs(rawlogs, {}) with a LogDBList
ListProcessLogs(es) ==
    LET r == IF SortRaises(es)
             THEN [data |-> data, added |-> {}, exc |-> TRUE]
             ELSE list_extend(data, SortById(es), maxlen)
    IN  /\ scribe.db = "list"
        /\ data' = r.data
        /\ last' = [op |-> "process_logs", batch |-> es, before |-> data,
                    added |-> r.added, exc |-> r.exc]
        /\ UNCHANGED <<maxlen, uuids, uuid_list, table, gossipVars,
                       seqVars, coVars, schedVars, callbacks, scribe, client,
                       logfile>>

\* Scribe.process_logs(rawlogs, {}) with a LogDBSQLite
SqlProcessLogs(es) ==
    LET r == IF SortRaises(es)
             THEN [rows |-> table, added |-> {}, exc |-> TRUE]
             ELSE sql_extend(table, SortById(es))
    IN  /\ scribe.db = "sqlite"
        /\ Len(r.rows) <= MaxRows
        /\ table' = r.rows
        /\ last' = [op |-> "process_logs", batch |-> es, before |-> table,
                    added |-> r.added, exc |-> r.exc]
        /\ UNCHANGED <<data, maxlen, uuids, uuid_list, gossipVars,
                       seqVars, coVars, schedVars, callbacks, scribe, client,
                       logfile>>

NextBatch ==
    \/ \E es \in RawBatches : ListProcessLogs(es)
    \/ \E es \in RawBatches : SqlProcessLogs(es)

SpecBatch == InitBatch /\ [][NextBatch]_vars

\* ------------------------------------------------------------------------
\* SpecServe: one Scribe answering the log-query and log-request messages
\* of its peers from its store
\* ------------------------------------------------------------------------
\* the `from` and `to` of a log-request: none, the lowest and the highest id
ReqBounds == {None, 1, MaxId}
\* the `amount` of a log-request
ReqAmounts == {None, 1}
\* the `key` of a log-request as data.get('key') returns it: None, or a
\* JSON value, 0 being one that Python takes for false
ReqKeys == {None, 0, 1}
LogRequests ==
    {[Payload("log-request") EXCEPT !.from = f, !.to = t, !.amount = a,
                                    !.key = k] :
        f \in ReqBounds, t \in ReqBounds, a \in ReqAmounts, k \in ReqKeys}

\* the Scribe as the callbacks read it: its identity and its store
Self == [identity |-> scribe.identity, data |-> data, uuids |-> uuids]

\* handle_identity has stored the id the backend gave this client
InitServe ==
    /\ data = <<>>
    /\ maxlen \in Caps
    /\ uuids = <<>>
    /\ uuid_list = <<>>
    /\ last = NoCall
    /\ GossipIdle
    /\ SeqIdle
    /\ CoIdle
    /\ SchedIdle
    /\ callbacks = <<>>
    /\ \E id \in Uids : scribe = [identity |-> id]
    /\ client = <<>>
    /\ logfile = <<>>
    /\ table = <<>>

\* Scribe._process_log_query(uid): the frames it sends
ServeLogQuery(uid) ==
    /\ last' = [op |-> "log-query", uid |-> uid, d |-> NoData,
                sent |-> process_log_query(Self, <<>>, uid).sends]
    /\ UNCHANGED <<data, maxlen, uuids, uuid_list, gossipVars, threadVars>>

\* Scribe._process_log_request(data, uid): the frames it sends
ServeLogRequest(d, uid) ==
    /\ last' = [op |-> "log-request", uid |-> uid, d |-> d,
                sent |-> process_log_request(Self, <<>>, d, uid).sends]
    /\ UNCHANGED <<data, maxlen, uuids, uuid_list, gossipVars, threadVars>>

NextServe ==
    \/ \E e \in Entries : StoreAppend(e)
    \/ \E uid \in Uids : ServeLogQuery(uid)
    \/ \E d \in LogRequests, uid \in Uids : ServeLogRequest(d, uid)

SpecServe == InitServe /\ [][NextServe]_vars

\* ------------------------------------------------------------------------
\* Properties of the in-memory store (checked under SpecStore)
\* ------------------------------------------------------------------------
\* the cap highest elements of a set of ids (all of them without a cap)
TopIds(S, cap) ==
    IF cap = None THEN S
    ELSE {x \in S : Cardinality({y \in S : y > x}) < cap}

CountId(d, id) == Cardinality({i \in 1..Len(d) : d[i].id = id})

StrictlyAscending(d) == \A i \in 1..(Len(d) - 1) : d[i].id < d[i + 1].id

SetMin(S) == CHOOSE x \in S : \A y \in S : x <= y
SetMax(S) == CHOOSE x \in S : \A y \in S : x >= y

\* C6: with a capacity maxlen >= 1 or none, after extend(E) the ids that
\* query() returns are the ids stored before together with the ids of E,
\* each once, cut to the maxlen highest; and the store never holds more
\* than maxlen entries.
C6_ExtendIsCappedUnion ==
    maxlen # 0 =>
        /\ last.op = "extend" =>
            LET q == query(data, None, None, None) IN
            /\ IdsOf(q) = TopIds(IdsOf(last.pre) \cup IdsOf(last.entries),
                                 maxlen)
            /\ \A id \in IdsOf(q) : CountId(q, id) = 1
        /\ maxlen # None => Len(data) <= maxlen

\* an extend on a store with a capacity that had to evict, with a batch
\* that repeats an id already stored
C6_Witness ==
    /\ last.op = "extend"
    /\ maxlen \in 1..MaxCap
    /\ Cardinality(IdsOf(last.pre) \cup IdsOf(last.entries)) > maxlen
    /\ IdsOf(last.pre) \cap IdsOf(last.entries) # {}
    /\ IdsOf(data) # IdsOf(last.pre)

\* C7: every id that extend(E) returns is stored afterwards: query(id, id)
\* returns the entry.
C7_ReturnedIdsAreStored ==
    last.op = "extend" =>
        \A id \in last.added : id \in IdsOf(query(data, id, id, None))

\* C8: query() is strictly ascending by id, bounds() is (lowest id,
\* highest id, number of entries) with min <= max, and an empty store has
\* bounds (None, None, None) and an empty query().
C8_SortedAndBounds ==
    LET q == query(data, None, None, None)
        b == bounds(data)
    IN  /\ StrictlyAscending(q)
        /\ IF IdsOf(q) = {}
           THEN b = <<None, None, None>> /\ q = <<>>
           ELSE /\ b = <<SetMin(IdsOf(q)), SetMax(IdsOf(q)),
                         Cardinality(IdsOf(q))>>
                /\ b[1] <= b[2]

\* a store of several entries built by a batch that was not in id order,
\* and a store emptied by a delete
C8_Witness ==
    \/ /\ last.op = "extend"
       /\ Len(data) >= 2
       /\ Len(last.entries) >= 2
       /\ last.entries[1].id > last.entries[2].id
       /\ last.pre # <<>>
    \/ /\ last.op = "delete" /\ data = <<>> /\ last.pre # <<>>

\* what a second append(e) would do to the store as it is now
AppendAgain == merge_logs(data, last.entries, maxlen)

\* C9 as stated: after append(e), exactly one entry has e's id, the count
\* grew by at most 1, and a second append(e) leaves the store unchanged.
C9_AppendExactlyOne ==
    last.op = "append" =>
        /\ CountId(data, last.entries[1].id) = 1
        /\ Len(data) <= Len(last.pre) + 1
        /\ AppendAgain.base = data
        /\ CountId(AppendAgain.base, last.entries[1].id) = 1

\* C9 amended: after append(e) at most one entry has e's id, and exactly
\* one unless the store is at its capacity and e's id is below every id it
\* keeps; the count grew by at most 1; a second append(e) leaves the store
\* unchanged.
C9_AppendIdempotent ==
    last.op = "append" =>
        LET id == last.entries[1].id IN
        /\ CountId(data, id) <= 1
        /\ \/ CountId(data, id) = 1
           \/ /\ maxlen \notin {None, 0}
              /\ Len(data) = maxlen
              /\ \A x \in IdsOf(data) : id < x
        /\ Len(data) <= Len(last.pre) + 1
        /\ AppendAgain.base = data
        /\ CountId(AppendAgain.base, id) <= 1

\* an append that stored a new entry, and one that repeated a stored id
C9_Witness ==
    /\ last.op = "append"
    /\ last.pre # <<>>
    /\ \/ Len(data) = Len(last.pre) + 1
       \/ last.entries[1].id \in IdsOf(last.pre)

\* entries of the sequence s that share an id are the same entry
IdsDetermineEntries(s) ==
    \A i, j \in 1..Len(s) : s[i].id = s[j].id => s[i] = s[j]

\* C10: extend(A) followed by extend(B) leaves the store as one extend of
\* A followed by B does, when entries with the same id are the same entry.
C10_ExtendComposes ==
    last.op = "extend" =>
        \A B \in Batches :
            IdsDetermineEntries(last.pre \o last.entries \o B) =>
                merge_logs(data, B, maxlen).base
                    = merge_logs(last.pre, last.entries \o B, maxlen).base

\* an extend of an unordered batch onto a non-empty store with a capacity,
\* which evicted
C10_Witness ==
    /\ last.op = "extend"
    /\ maxlen \in 1..MaxCap
    /\ last.pre # <<>>
    /\ Len(last.entries) >= 2
    /\ last.entries[1].id > last.entries[2].id
    /\ IdsOf(last.pre) \ IdsOf(data) # {}


\* ------------------------------------------------------------------------
\* Properties of query() (checked under SpecQuery)
\* ------------------------------------------------------------------------
\* the entries of d whose id is in S, in the order of d
RECURSIVE Keep(_, _)
Keep(d, S) ==
    IF d = <<>> THEN <<>>
    ELSE IF Head(d).id \in S THEN <<Head(d)>> \o Keep(Tail(d), S)
    ELSE Keep(Tail(d), S)

FirstN(seq, n) == SubSeq(seq, 1, IF n < Len(seq) THEN n ELSE Len(seq))
LastN(seq, n) ==
    SubSeq(seq, (IF n < Len(seq) THEN Len(seq) - n ELSE 0) + 1, Len(seq))

\* C11: query(fromId, toId) returns exactly the entries with
\* fromId <= id <= toId; query(fromId, amount) the first `amount` entries
\* with id >= fromId (all without an amount); query(toId, amount) the last
\* `amount` entries with id <= toId (all without an amount); always in
\* ascending id order, also for bounds that are not stored ids.
C11_QueryWithBound ==
    last.op = "query" =>
        LET lfrom == last.q[1]
            lto == last.q[2]
            amount == last.q[3]
            above == Keep(data, {x \in Ids : x >= lfrom})
            below == Keep(data, {x \in Ids : x <= lto})
        IN  /\ StrictlyAscending(last.ret)
            /\ (lfrom # None /\ lto # None) =>
                    last.ret = Keep(data, {x \in Ids : lfrom <= x /\ x <= lto})
            /\ (lfrom # None /\ lto = None) =>
                    last.ret = IF amount = None THEN above
                               ELSE FirstN(above, amount)
            /\ (lfrom = None /\ lto # None) =>
                    last.ret = IF amount = None THEN below
                               ELSE LastN(below, amount)

\* a query from a bound that is not a stored id, with an amount that cut
\* the answer short
C11_Witness ==
    /\ last.op = "query"
    /\ last.q[1] # None /\ last.q[2] = None /\ last.q[3] # None
    /\ last.q[1] \notin IdsOf(data)
    /\ last.ret # <<>>
    /\ Len(last.ret) < Len(Keep(data, {x \in Ids : x >= last.q[1]}))
    /\ Len(last.ret) < Len(data)

\* C12: query(amount) alone returns the tail of the store: the last
\* min(amount, count) entries in ascending order, for every amount >= 0.
C12_QueryTail ==
    (last.op = "query" /\ last.q[1] = None /\ last.q[2] = None
        /\ last.q[3] # None) =>
            /\ StrictlyAscending(last.ret)
            /\ last.ret = LastN(data, last.q[3])

\* ------------------------------------------------------------------------
\* Properties of the store with its UUID map (checked under SpecUuid)
\* ------------------------------------------------------------------------
\* C13: with maxlen = 0 the store keeps nothing: after any sequence of
\* append calls (which report success) bounds() is (None, None, None) and
\* query() is empty, and the UUID map keeps nothing either.
C13_MaxlenZeroKeepsNothing ==
    maxlen = 0 =>
        /\ bounds(data) = <<None, None, None>>
        /\ query(data, None, None, None) = <<>>
        /\ DOMAIN uuids = {}
        /\ last.op = "append" => last.ok

\* C14: with a capacity >= 1 or none, append_uuid(uid, uuid) returns true
\* iff uid had no binding before the call, and immediately afterwards
\* get_uuid(uid) returns uuid, also when uid was bound before.
C14_AppendUuidBinds ==
    (last.op = "append_uuid" /\ maxlen # 0) =>
        /\ ~last.exc
        /\ last.ok = (last.uid \notin DOMAIN last.pre_uuids)
        /\ get_uuid(uuids, last.uid) = [ret |-> last.uuid, exc |-> FALSE]

\* C38: with a capacity set, after any sequence of append_uuid calls the
\* UUID map has at most maxlen bindings, its keys are the uids of the
\* eviction list, and no append_uuid call has raised.
C38_UuidMapBounded ==
    maxlen # None =>
        /\ Cardinality(DOMAIN uuids) <= maxlen
        /\ DOMAIN uuids = {uuid_list[i] : i \in 1..Len(uuid_list)}
        /\ last.op = "append_uuid" => ~last.exc

\* C15: delete(ids) removes exactly the stored entries whose id is in ids
\* and returns them; the other entries and their order and the UUID map
\* are unchanged; ids that are not stored are ignored.
C15_DeleteFrame ==
    last.op = "delete" =>
        /\ last.removed = Keep(last.pre, last.ids)
        /\ data = Keep(last.pre, Ids \ last.ids)
        /\ uuids = last.pre_uuids

\* a delete, on a store with UUID bindings, of a stored id and of one that
\* is not stored, which left an entry behind
C15_Witness ==
    /\ last.op = "delete"
    /\ last.removed # <<>>
    /\ data # <<>>
    /\ last.ids \ IdsOf(last.pre) # {}
    /\ DOMAIN uuids # {}

\* ------------------------------------------------------------------------
\* Properties of the gossip (checked under SpecGossip)
\* ------------------------------------------------------------------------
\* no frame waits in an inbox and no callback is pending
Quiet == \A b \in Bots : inbox[b] = <<>> /\ pending[b] = <<>>

StoreIds(b) == IdsOf(bot[b].data)

\* C1: a Scribe that pulls logs reaches Done after its identity, and over
\* the connection it broadcasts log-done exactly once: never twice, and
\* once by the time the gossip has come to rest.
C1_LogDoneExactlyOnce ==
    \A b \in room :
        ~cfg[b].dont_pull =>
            /\ mon[b].done_count <= 1
            /\ (Quiet /\ ~bot[b].crashed) =>
                    bot[b].logs_done /\ mon[b].done_count = 1

\* the two Scribes with unbounded stores are alone in the room and have
\* finished their gossip: both Done, nothing in flight
TwoScribesFinished ==
    /\ room = {1, 2}
    /\ cfg[1] = Puller(None) /\ cfg[2] = Puller(None)
    /\ Quiet
    /\ bot[1].logs_done /\ bot[2].logs_done

OlderThan(Y, X) == IF X = {} THEN Y ELSE {y \in Y : y <= SetMin(X)}

FirstMin(infos) ==
    CHOOSE i \in 1..Len(infos) :
        /\ \A j \in 1..Len(infos) : infos[i].from <= infos[j].from
        /\ \A j \in 1..(i - 1) : infos[i].from < infos[j].from

\* C3: within a round, after any sequence of processed log-infos, the
\* candidate is the log-info with the lowest `from` of those processed in
\* the round, the earliest-processed one among equals; with none processed
\* there is no candidate.
C3_CandidateIsEarliestMinimum ==
    \A b \in Bots :
        IF mon[b].infos = <<>> THEN bot[b].cand = NoData
        ELSE LET w == mon[b].infos[FirstMin(mon[b].infos)] IN
             /\ bot[b].cand # NoData
             /\ bot[b].cand.from = w.from
             /\ bot[b].cand.tok = w.tok

\* a round in which the second log-info lowered the candidate and a third
\* one advertised the same `from` as the second
C3_Witness ==
    \E b \in Bots :
        /\ Len(mon[b].infos) >= 3
        /\ mon[b].infos[2].from < mon[b].infos[1].from
        /\ mon[b].infos[3].from = mon[b].infos[2].from
        /\ bot[b].cand.tok = mon[b].infos[2].tok

\* C4: no Scribe unicasts a log-request to its own id.
C4_NoRequestToSelf ==
    \A b \in Bots :
        /\ \A i \in 1..Len(mon[b].reqs) : mon[b].reqs[i] # b
        /\ \A i \in 1..Len(inbox[b]) :
            inbox[b][i].p.type = "log-request" => inbox[b][i].from # b

\* a Scribe with a store of its own, which has read its own log-query,
\* has sent a log-request to a peer
C4_Witness ==
    \E b \in Bots :
        /\ mon[b].init # {}
        /\ mon[b].reqs # <<>>
        /\ \E r \in Bots \ {b} : \E i \in 1..Len(inbox[r]) :
            inbox[r][i].p.type = "log-request" /\ inbox[r][i].from = b

\* a group of several log-infos whose delayed sends have all fired
GroupDone(m) == Len(m.g_infos) >= 2 /\ ~m.g_open /\ m.g_left = {}

\* the peers of the group that advertised the lowest `from`
LowestPeers(infos) ==
    {infos[i].uid : i \in {j \in 1..Len(infos) :
                            \A k \in 1..Len(infos) :
                                infos[j].from <= infos[k].from}}

\* C5 as stated: if several log-infos are processed before the first of
\* their delayed sends fires, exactly one log-request is sent for them, to
\* the peer that advertised the lowest `from`.
C5_OneRequestPerGroup ==
    \A b \in Bots :
        GroupDone(mon[b]) =>
            /\ Len(mon[b].g_reqs) = 1
            /\ mon[b].g_reqs[1] \in LowestPeers(mon[b].g_infos)

\* C5 amended: if several log-infos are processed before the first of
\* their delayed sends fires, and until the last of those sends has fired
\* no new round is started and no later log-info becomes candidate, then
\* exactly one log-request is sent for them, to the peer that advertised
\* the lowest `from` first; the other sends send nothing.
C5_OneRequestPerUnbrokenGroup ==
    \A b \in Bots :
        (GroupDone(mon[b]) /\ ~mon[b].g_broken) =>
            mon[b].g_reqs = <<mon[b].g_infos[FirstMin(mon[b].g_infos)].uid>>

\* a group in which a second log-info superseded the first: both had a
\* delayed send, the first sent nothing
C5_Witness ==
    \E b \in Bots :
        /\ GroupDone(mon[b])
        /\ ~mon[b].g_broken
        /\ mon[b].g_infos[1].tok # None
        /\ mon[b].g_infos[2].tok # None
        /\ mon[b].g_reqs = <<mon[b].g_infos[2].uid>>

\* the step is run_once of bot b running a callback of the given kind
Runs(b, kind) ==
    /\ b \in room
    /\ ~bot[b].crashed
    /\ HasDue(pending[b])
    /\ pending[b][DueIndex(pending[b])].kind = kind
    /\ pending'[b] # pending[b]

\* in the step, bot b has broadcast a log-query (the backend passes it to
\* b as well) and has no candidate
BeginsRound(b) ==
    /\ bot'[b].cand = NoData
    /\ inbox'[b] = Append(inbox[b], Frame(b, Payload("log-query")))

\* in the step, bot b has become Done and has broadcast log-done
Finishes(b) ==
    /\ bot'[b].logs_done
    /\ mon'[b].done_count = mon[b].done_count + 1

\* the step has put a new entry or the UUID of a new user into b's store
Absorbs(b) ==
    \/ IdsOf(bot'[b].data) \ IdsOf(bot[b].data) # {}
    \/ (DOMAIN bot'[b].uuids) \ (DOMAIN bot[b].uuids) # {}

\* C33: when a Scribe that pulls processes a log message, it starts
\* another round (log-query broadcast, candidate cleared) without a
\* log-done if the merge absorbed a new entry or UUID binding, and becomes
\* Done if it absorbed nothing; with dont_pull it merges and does neither.
C33_LogStartsRoundIffAbsorbed ==
    [][\A b \in Bots :
        Runs(b, "process_log") =>
            IF cfg[b].dont_pull
            THEN /\ inbox'[b] = inbox[b]
                 /\ mon'[b].done_count = mon[b].done_count
            ELSE IF Absorbs(b)
            THEN /\ BeginsRound(b)
                 /\ mon'[b].done_count = mon[b].done_count
            ELSE /\ Finishes(b)
                 /\ inbox'[b] = inbox[b]]_vars

\* the step is run_once of bot b running _send_request(None), the timer
\* that _logs_begin scheduled
RunsTimer(b) ==
    /\ Runs(b, "send_request")
    /\ pending[b][DueIndex(pending[b])].uid = None

\* C34: when the timer scheduled at the start of a round fires and no
\* candidate has been chosen, the Scribe becomes Done and broadcasts
\* log-done; when a log-info has been accepted as candidate before, the
\* timer is stale and no log-done is broadcast.
C34_TimerFinishesOnlyWithoutCandidate ==
    [][\A b \in Bots :
        RunsTimer(b) =>
            IF bot[b].cand = NoData
            THEN Finishes(b)
            ELSE /\ mon'[b].done_count = mon[b].done_count
                 /\ bot'[b].logs_done = bot[b].logs_done]_vars

\* C37: in a round started by _logs_begin a Scribe sends at most one
\* log-request, whenever the log-infos of the round arrive.
C37_OneRequestPerRound ==
    \A b \in Bots : Len(mon[b].reqs) <= 1

\* the positions of the log-infos of b's round that became candidate
Accepted(b) == {i \in 1..Len(mon[b].infos) : mon[b].infos[i].tok # None}

\* C37 amended: in a round a Scribe sends at most one log-request for each
\* log-info that it accepted as candidate in the round, to the peer that
\* sent that log-info.
C37_OneRequestPerCandidate ==
    \A b \in Bots :
        /\ Len(mon[b].reqs) <= Cardinality(Accepted(b))
        /\ \A k \in 1..Len(mon[b].reqs) :
                \E i \in Accepted(b) : mon[b].infos[i].uid = mon[b].reqs[k]

\* a Scribe has sent a log-request for a candidate, then accepted a
\* log-info with a lower `from` and sent a second log-request in the round
C37_Witness ==
    \E b \in Bots :
        /\ Len(mon[b].reqs) = 2
        /\ mon[b].reqs[1] # mon[b].reqs[2]
        /\ Len(mon[b].infos) = 2
        /\ mon[b].infos[2].from < mon[b].infos[1].from

\* b is a prefix of the sequence a
IsPrefix(b, a) == Len(b) <= Len(a) /\ SubSeq(a, 1, Len(b)) = b

\* what a _push_logs step of b with peers left on its list puts on the
\* wire: the whole store to the first peer left, and after the last peer
\* the log-inquiry to everyone
PushedFrames(b, r) ==
    LET peer == Head(bot[b].push)
        dump == Frame(b, [Payload("log") EXCEPT
                             !.data = bot[b].data,
                             !.uuids = query_uuid(bot[b].uuids, bot[b].data, <<>>)])
        inquiry == Frame(b, Payload("log-inquiry"))
    IN  (IF r = peer THEN <<dump>> ELSE <<>>)
            \o (IF Len(bot[b].push) = 1 THEN <<inquiry>> ELSE <<>>)

\* the step is b's scheduler running _push_logs with peers left on the list
\* (the callback may queue itself again, which leaves the queue as it was)
Pushes(b) ==
    /\ b \in room
    /\ ~bot[b].crashed
    /\ HasDue(pending[b])
    /\ pending[b][DueIndex(pending[b])].kind = "push_logs"
    /\ bot[b].push # <<>>
    /\ bot'[b].push # bot[b].push

\* C31: a Scribe started with push_logs = [p1..pn] sends, after its
\* identity, a dump of its whole store to p1, ..., pn in that order, each
\* once, and broadcasts log-inquiry exactly once, right after the dump to
\* pn; with an empty list it sends no dump and no log-inquiry.
C31_PushesInOrderThenInquires ==
    /\ [](\A b \in Bots :
            /\ IsPrefix(mon[b].pushed, cfg[b].push)
            /\ mon[b].inquiries =
                   IF cfg[b].push # <<>> /\ mon[b].pushed = cfg[b].push
                   THEN 1 ELSE 0
            /\ (bot[b].identity # None /\ pending[b] = <<>> /\ ~bot[b].crashed)
                   => mon[b].pushed = cfg[b].push)
    /\ [][\A b \in Bots :
            IF Pushes(b)
            THEN \A r \in Bots :
                    inbox'[r] = IF r \in room
                                THEN inbox[r] \o PushedFrames(b, r)
                                ELSE inbox[r]
            ELSE \A r \in Bots : \A i \in 1..Len(inbox'[r]) :
                    (i > Len(inbox[r]) /\ inbox'[r][i].from = b)
                        => /\ inbox'[r][i].p.type # "log-inquiry"
                           /\ (inbox'[r][i].p.type = "log"
                                  => bot[b].push = <<>>)]_vars

\* a Scribe has pushed its store to two peers and inquired, and another
\* was started without peers to push to
C31_Witness ==
    /\ Len(mon[1].pushed) = 2
    /\ mon[1].inquiries = 1
    /\ bot[2].identity # None
    /\ pending[2] = <<>>
    /\ mon[2].pushed = <<>>

\* the step is b's receiving thread taking a log-inquiry off its connection
ReceivesInquiry(b) ==
    /\ b \in room
    /\ Drained
    /\ inbox[b] # <<>>
    /\ Head(inbox[b]).p.type = "log-inquiry"
    /\ room' = room
    /\ pending' = pending
    /\ inbox'[b] # inbox[b]
    /\ Len(inbox'[b]) <= Len(inbox[b])

\* b has finished a round and not begun another since
Done(b) == mon[b].done_count > 0 /\ ~mon[b].open

\* the frames the inquirer is sent in the step
Reply(b) ==
    LET to == Head(inbox[b]).from
        before == IF to = b THEN Tail(inbox[b]) ELSE inbox[to]
    IN  SubSeq(inbox'[to], Len(before) + 1, Len(inbox'[to]))

\* C35: a Scribe answers a log-inquiry with a unicast log-done to the
\* inquirer exactly if it is Done at that moment; while Idle or in the
\* middle of a round, also one begun after it had been Done, it sends
\* nothing.
C35_InquiryAnsweredIffDone ==
    [][\A b \in Bots :
        ReceivesInquiry(b) =>
            /\ Reply(b) = IF Done(b)
                          THEN <<Frame(b, Payload("log-done"))>> ELSE <<>>
            /\ \A r \in Bots \ {b, Head(inbox[b]).from} :
                   inbox'[r] = inbox[r]]_vars

\* ------------------------------------------------------------------------
\* Properties of send_seq (checked under SpecSeq)
\* ------------------------------------------------------------------------
\* C16: the seq values handed out on one client are 0, 1, 2, ...: the
\* first is 0, each call gets a value greater than every earlier call, and
\* no two calls, concurrent ones included, get the same value.
C16_SeqValuesCount ==
    /\ \A i \in 1..Len(handed) : handed[i].seq = i - 1
    /\ \A t \in Threads :
        caller[t].pc = "send" =>
            \E i \in 1..Len(handed) : handed[i] = [t |-> t, seq |-> caller[t].seq]

\* two threads took values in turn, and one waits for the lock the other
\* holds
C16_Witness ==
    /\ Len(handed) >= 2
    /\ handed[1].t # handed[2].t
    /\ \E t \in Threads : caller[t].pc = "acquire" /\ seq_lock \notin {None, t}

\* the threads whose send_seq calls were handed the value seq
ThreadsOf(seq) == {handed[i].t : i \in {j \in 1..Len(handed) : handed[j].seq = seq}}

\* C39 as stated: the frames are written to the WebSocket in increasing
\* seq order, also when send_seq is called from two threads at once.
C39_WireInSeqOrder ==
    \A i, j \in 1..Len(wire) : i < j => wire[i] < wire[j]

\* C39 amended: no seq is written twice, and the frames of one thread are
\* written in increasing seq order.
C39_WireInSeqOrderPerThread ==
    \A i, j \in 1..Len(wire) :
        i < j =>
            /\ wire[i] # wire[j]
            /\ ThreadsOf(wire[i]) \cap ThreadsOf(wire[j]) # {} =>
                    wire[i] < wire[j]

\* a thread has written two frames, and a frame of the other thread with
\* a larger seq was written before one of them
C39_Witness ==
    \E i, j, k \in 1..Len(wire) :
        /\ i < j
        /\ wire[i] > wire[j]
        /\ k # j
        /\ ThreadsOf(wire[k]) = ThreadsOf(wire[j])

\* ------------------------------------------------------------------------
\* Properties of the event scheduler (checked under SpecSched)
\* ------------------------------------------------------------------------

\* C17 as stated: the latest cancel(event) returned true iff the callback
\* of the event had not started executing, and no callback for which a
\* cancel call returned true has been invoked.
C17_CancelIffNotStarted ==
    /\ last_cancel.e # None =>
           (last_cancel.ret <=> ~last_cancel.started)
    /\ \A e \in 1..Len(events) : events[e].cancel_ok => ~events[e].started

\* C17 amended: the latest cancel(event) returned true iff run_once had not
\* yet taken the event off the queue; a true return implies the callback
\* had not started, and no callback for which a cancel call returned true
\* has been invoked.
C17_CancelIffStillQueued ==
    /\ last_cancel.e # None =>
           /\ last_cancel.ret <=> ~last_cancel.popped
           /\ last_cancel.ret => ~last_cancel.started
    /\ \A e \in 1..Len(events) : events[e].cancel_ok => ~events[e].started

\* C17 witness: a cancel returned true for an event that was due, and
\* run_once has since taken the event off the queue and passed over it
\* while another callback was invoked.
C17_Witness ==
    /\ last_cancel.e # None
    /\ last_cancel.ret
    /\ events[last_cancel.e].handled
    /\ ~events[last_cancel.e].started
    /\ events[last_cancel.e].time <= now
    /\ \E o \in 1..Len(events) : events[o].started

\* C18: an event follows queued -> (canceled | handled): once an event is
\* handled none of its state flags changes again, so a later cancel() does
\* not mark a handled event as canceled and no event whose callback was
\* handed to run_once uncanceled ends up in both states.
C18_NoChangeAfterHandled ==
    [][\A e \in 1..Len(events) :
           events[e].handled =>
               /\ events'[e].handled = events[e].handled
               /\ events'[e].canceled = events[e].canceled]_vars

\* C19: clean shutdown: run() is never left blocked with the forever flag
\* cleared and an empty queue, that is, inside cond.wait() without a
\* timeout and with no notification on its way.
C19_NeverBlockedAfterShutdown ==
    ~ /\ runner.pc = "waiting"
      /\ runner.deadline = None
      /\ ~runner.notified
      /\ ~sched.forever
      /\ sched.pending = {}

\* C20: no lost wake-up: run() is never left inside cond.wait() without a
\* timeout and without a notification while a submitted callback is
\* queued.
C20_NoLostWakeup ==
    ~ /\ runner.pc = "waiting"
      /\ runner.deadline = None
      /\ ~runner.notified
      /\ sched.pending # {}

\* ------------------------------------------------------------------------
\* Properties of the Scribe's two threads (checked under SpecDispatch)
\* ------------------------------------------------------------------------
FrameEvents == {e \in 1..Len(events) : callbacks[e].kind = "frame"}

\* C21: the handlers the receive thread submits with add_now for the
\* successive frames of a connection are executed in the order the frames
\* arrived, and so are their store mutations: the handler of a frame has
\* started only if the handlers of all earlier frames have, the events
\* carry non-decreasing times, and the mutations are in frame order.
C21_FramesInArrivalOrder ==
    /\ \A i, j \in 1..Len(scribe.executed) :
           i < j => scribe.executed[i] < scribe.executed[j]
    /\ \A e1, e2 \in FrameEvents :
           callbacks[e1].n < callbacks[e2].n =>
               /\ e1 < e2
               /\ events[e1].time <= events[e2].time
               /\ events[e2].started => events[e1].started

\* C21 witness: two frames were handled, the second submitted at a later
\* time than the first, and a keepalive ping ran as well.
C21_Witness ==
    /\ Len(scribe.executed) = 2
    /\ \E e1, e2 \in FrameEvents : events[e1].time < events[e2].time
    /\ scribe.pings > 0

\* C22: when a protocol handler run by the dispatcher raises, the
\* dispatcher continues: run() is not left, so callbacks queued after the
\* handler are still executed.
C22_DispatcherSurvivesHandler ==
    \A e \in FrameEvents :
        callbacks[e].bad /\ events[e].started => runner.pc # "crashed"

\* C36: with the default on_error a callback that raises ends run(): the
\* exception leaves run() and that run() call invokes no further callback;
\* the events still pending stay queued; the running flag is reset and a
\* thread waiting in join() is woken.
C36_RaiseEndsRun ==
    /\ [](runner.pc = "crashed" =>
            /\ ~sched.running
            /\ runner.join # "waiting")
    /\ [][runner.pc \in {"raised", "crashed"} =>
            /\ runner'.pc \in {"raised", "crashed"}
            /\ sched.pending \subseteq sched'.pending
            /\ \A e \in 1..Len(events) :
                    /\ events'[e].started = events[e].started
                    /\ events'[e].handled = events[e].handled]_vars

\* a callback has raised while a thread waited in join() and events were
\* still queued
C36_Witness ==
    /\ runner.pc = "crashed"
    /\ runner.join = "woken"
    /\ \E e \in sched.pending : ~events[e].handled

\* C23: all protocol work runs on the dispatcher thread: every access of
\* the store, of the gossip state (_cur_candidate, _logs_done) and every
\* keepalive ping is made by the dispatcher inside a scheduler callback.
C23_AllWorkOnDispatcher ==
    \A a \in scribe.accesses :
        a.what \in {"store", "gossip", "ping"} => a.thread = "disp"

\* C24: once on_close has completed, no ping job that is not canceled
\* remains in the scheduler.
C24_PingCanceledOnClose ==
    scribe.rx_pc = "closed" =>
        \A e \in sched.pending :
            callbacks[e].kind = "ping" => events[e].canceled

\* ------------------------------------------------------------------------
\* Properties of the client's main loop (checked under SpecClient)
\* ------------------------------------------------------------------------
\* C25: in run() every successful connect is followed by exactly one
\* on_open and then exactly one on_close, also when a call in between
\* fails, and after a close(final=True) run() does not reconnect.
C25_RunLifecycle ==
    /\ \A i \in 1..Len(client.hist) :
           client.hist[i] = CASE i % 3 = 1 -> "connect"
                              [] i % 3 = 2 -> "open"
                              [] OTHER -> "close"
    /\ ~client.late

\* ------------------------------------------------------------------------
\* Properties of the file recovery (checked under SpecReplay)
\* ------------------------------------------------------------------------
\* the ids whose last line in the file is a DELETE that follows a POST or
\* LOGPOST line of the id
DeletedIds(lines) ==
    {id \in Ids :
        \E j \in 1..Len(lines) :
            /\ lines[j].tag = "DELETE" /\ lines[j].id = id
            /\ \E i \in 1..(j - 1) :
                   lines[i].tag \in {"POST", "LOGPOST"} /\ lines[i].id = id
            /\ \A k \in (j + 1)..Len(lines) :
                   lines[k].tag \in {"POST", "LOGPOST"} => lines[k].id # id}

\* C26: for every maxlen, none included, an entry whose id appears in a
\* DELETE line after its POST/LOGPOST line is absent from the entries
\* read_posts_ex returns.
C26_DeletedEntriesAbsent ==
    DeletedIds(logfile) \cap IdsOf(read_posts_ex(logfile, maxlen).ret) = {}

\* C27: replay round trip: the POST/LOGPOST/UUID lines of a history without
\* deletions, read by read_posts_ex and loaded into an empty store of the
\* same capacity, give the bounds() and the query_uuid() of the original
\* store.
C27_ReplayRoundTrip ==
    (\A i \in 1..Len(logfile) : logfile[i].tag # "DELETE") =>
        LET r == Reload(logfile, maxlen)
        IN  /\ ~r.exc
            /\ bounds(r.data) = bounds(data)
            /\ r.uuids = uuids

\* ------------------------------------------------------------------------
\* Properties of process_logs with bad ids (checked under SpecBatch)
\* ------------------------------------------------------------------------
\* the entries of a batch whose id is a message id
WellFormed(es) == SelectSeq(es, LAMBDA e : e.id \in Ids)

\* C28: an entry of a received batch whose id is missing or malformed is
\* skipped without an exception, and the well-formed entries of the batch
\* are merged, in a LogDBList and in a LogDBSQLite
C28_BadIdsSkipped ==
    last.op = "process_logs" =>
        LET good == SortById(WellFormed(last.batch)) IN
        /\ ~last.exc
        /\ scribe.db = "list" =>
                data = merge_logs(last.before, good, maxlen).base
        /\ scribe.db = "sqlite" =>
                table = InsertRows(last.before, good)

\* ------------------------------------------------------------------------
\* Properties of the answers to peers (checked under SpecServe)
\* ------------------------------------------------------------------------
LowestId(d) == CHOOSE x \in IdsOf(d) : \A y \in IdsOf(d) : x <= y
HighestId(d) == CHOOSE x \in IdsOf(d) : \A y \in IdsOf(d) : x >= y

\* C29: on a log-query from peer P the Scribe sends exactly one log-info,
\* to P, with the lowest id, the highest id and the number of entries of
\* its store, if the store is not empty and P is not the Scribe itself;
\* otherwise it sends nothing.
C29_LogInfoIffStoreAndPeer ==
    last.op = "log-query" =>
        IF data # <<>> /\ last.uid # scribe.identity
        THEN last.sent =
                <<Send(last.uid, [Payload("log-info") EXCEPT
                                     !.from = LowestId(data),
                                     !.to = HighestId(data),
                                     !.length = Cardinality(IdsOf(data))])>>
        ELSE last.sent = <<>>

\* a peer has been answered by a Scribe holding several entries
C29_Witness ==
    /\ last.op = "log-query"
    /\ Len(data) >= 2
    /\ last.uid # scribe.identity
    /\ Len(last.sent) = 1
    /\ last.sent[1].p.from < last.sent[1].p.to

\* C30: on a log-request the Scribe sends the requester exactly one log
\* message; its data is store.query(from, to, amount) for the fields of
\* the request, and its key is the key of the request when the request
\* has one, and is absent when it has none.
C30_LogReplyEchoesKey ==
    last.op = "log-request" =>
        /\ Len(last.sent) = 1
        /\ last.sent[1].to = last.uid
        /\ last.sent[1].p.type = "log"
        /\ last.sent[1].p.data =
                query(data, last.d.from, last.d.to, last.d.amount)
        /\ last.sent[1].p.key = last.d.key

\* a request with a key that Python takes for false, and an amount that
\* cuts the answer, has been answered
C30_Witness ==
    /\ last.op = "log-request"
    /\ last.d.key = 0
    /\ last.d.amount = 1
    /\ Len(data) >= 2
    /\ Len(last.sent) = 1
    /\ Len(last.sent[1].p.data) = 1
    /\ last.sent[1].p.key = 0

\* ------------------------------------------------------------------------
\* SpecAll: one All suspend of coroutines.py. Its children finish at once,
\* inside their apply(), or later, from the executor's loop; each child
\* wakes at most once and never after it was cancelled, as Suspend.cancel
\* demands. The executor runs everything in one thread, so that apply(),
\* cancel() and every wake of a child are steps of their own.
\* ------------------------------------------------------------------------
MaxChildren == 3
Values == {1, 2}

\* what a child passes to its wake callback: (0, value), (1, exception),
\* or the None singleton, written <<>>
WakeNone == <<>>
WakeValues == {WakeNone} \cup ({0, 1} \X Values)

\* the values n children may finish with
Hows(n) == [1..n -> WakeValues]

\* `if value is None: value = (0, None)`
Normal(value) == IF value = WakeNone THEN <<0, None>> ELSE value

\* All.__init__
NewAll(n) ==
    [n |-> n,
     result |-> [i \in 1..n |-> None],
     finished |-> [i \in 1..n |-> FALSE],
     finished_count |-> 0,
     raised |-> FALSE,
     pc |-> "new"]

NewChild == [st |-> "new", out |-> WakeNone, cancelled |-> FALSE]

InitAll ==
    /\ \E n \in 0..MaxChildren :
        /\ suspend = NewAll(n)
        /\ child = [i \in 1..n |-> NewChild]
    /\ woken = <<>>
    /\ mutex = <<>>
    /\ routine = <<>>
    /\ StoreIdle
    /\ GossipIdle
    /\ SeqIdle
    /\ SchedIdle
    /\ AppIdle

\* All._finish(index, value, callback): the All after the call, the values
\* the callback was invoked with, and whether RuntimeError was raised
finish(a, index, value) ==
    IF a.finished[index]
    THEN [a |-> a, wake |-> <<>>, exc |-> TRUE]
    ELSE IF a.finished_count = -1
    THEN [a |-> a, wake |-> <<>>, exc |-> FALSE]
    ELSE IF Normal(value)[1] = 1
    THEN [a |-> [a EXCEPT !.finished_count = -1, !.raised = TRUE],
          wake |-> <<Normal(value)>>, exc |-> FALSE]
    ELSE LET b == [a EXCEPT !.result[index] = Normal(value)[2],
                            !.finished[index] = TRUE,
                            !.finished_count = @ + 1]
         IN  IF b.finished_count = b.n
             THEN [a |-> [b EXCEPT !.finished_count = -1],
                   wake |-> << <<0, b.result>> >>, exc |-> FALSE]
             ELSE [a |-> b, wake |-> <<>>, exc |-> FALSE]

\* CombinationSuspend.cancel: every child is cancelled
cancel_children(ch) == [i \in DOMAIN ch |-> [ch[i] EXCEPT !.cancelled = TRUE]]

\* the loop of All.apply from child n on: the children in now finish inside
\* their apply() with the value how gives them, the others stay pending
RECURSIVE apply_children(_, _, _, _)
apply_children(st, n, now_, how) ==
    IF n > st.a.n \/ st.a.raised THEN st
    ELSE IF n \notin now_
    THEN apply_children([st EXCEPT !.ch[n].st = "pending"], n + 1, now_, how)
    ELSE LET f == finish(st.a, n, how[n]) IN
         apply_children([a |-> f.a,
                         ch |-> [st.ch EXCEPT ![n].st = "done",
                                              ![n].out = Normal(how[n])],
                         wake |-> st.wake \o f.wake],
                        n + 1, now_, how)

\* All.apply(wake, executor, routine), for every choice of the children
\* that finish inside their apply() and of what they finish with
Apply ==
    /\ suspend.pc = "new"
    /\ \E now_ \in SUBSET (1..suspend.n), how \in Hows(suspend.n) :
       LET st == apply_children([a |-> suspend, ch |-> child, wake |-> <<>>],
                                1, now_, how)
       IN  IF st.a.raised
           THEN /\ suspend' = [st.a EXCEPT !.finished_count = -1,
                                           !.pc = "applied"]
                /\ child' = cancel_children(st.ch)
                /\ woken' = woken \o st.wake
           ELSE IF st.a.n = 0 /\ st.a.finished_count = 0
           THEN /\ suspend' = [st.a EXCEPT !.finished_count = -1,
                                           !.pc = "applied"]
                /\ child' = st.ch
                /\ woken' = (woken \o st.wake) \o << <<0, st.a.result>> >>
           ELSE /\ suspend' = [st.a EXCEPT !.pc = "applied"]
                /\ child' = st.ch
                /\ woken' = woken \o st.wake
    /\ UNCHANGED <<mutex, routine, storeVars, gossipVars, seqVars, schedVars,
                   appVars>>

\* a pending child finishes: the wake callback make_wake(i) gave it runs
\* _finish(i, value, wake)
ChildFinish(i, value) ==
    /\ i \in DOMAIN child
    /\ child[i].st = "pending"
    /\ ~child[i].cancelled
    /\ LET f == finish(suspend, i, value) IN
        /\ ~f.exc
        /\ suspend' = f.a
        /\ woken' = woken \o f.wake
    /\ child' = [child EXCEPT ![i].st = "done", ![i].out = Normal(value)]
    /\ UNCHANGED <<mutex, routine, storeVars, gossipVars, seqVars, schedVars,
                   appVars>>

\* All.cancel(), called by whoever composed the All
AllCancel ==
    /\ suspend.pc = "applied"
    /\ suspend' = [suspend EXCEPT !.finished_count = -1, !.pc = "cancelled"]
    /\ child' = cancel_children(child)
    /\ UNCHANGED <<woken, mutex, routine, storeVars, gossipVars, seqVars,
                   schedVars, appVars>>

NextAll ==
    \/ Apply
    \/ \E i \in 1..MaxChildren, value \in WakeValues : ChildFinish(i, value)
    \/ AllCancel

SpecAll == InitAll /\ [][NextAll]_vars

\* the children that finished with an exception
Raisers == {i \in DOMAIN child : child[i].st = "done" /\ child[i].out[1] = 1}

\* C32: when every child of an All finishes normally the wake callback is
\* invoked exactly once, with the list of the children's results in their
\* order; when a child finishes with an exception, that exception is given
\* to the callback exactly once, all other children are cancelled, and the
\* callback is not invoked again.
C32_AllWakesOnce ==
    /\ Len(woken) <= 1
    /\ (/\ suspend.pc # "new"
        /\ \A i \in DOMAIN child : child[i].st = "done" /\ child[i].out[1] = 0)
           => woken = << <<0, [i \in DOMAIN child |-> child[i].out[2]]>> >>
    /\ Raisers # {}
           => \E i \in Raisers :
                 /\ woken = <<child[i].out>>
                 /\ \A j \in DOMAIN child \ {i} : child[j].cancelled

\* ------------------------------------------------------------------------
\* SpecLock: coroutines of one executor sharing a coroutines.Lock. A
\* coroutine yields lock.Acquire(), is resumed once the Acquire has woken
\* it, and calls release() when it leaves the section; an Acquire that
\* waits may be cancelled. release() is also called on the lock while
\* nobody holds it.
\* ------------------------------------------------------------------------
Routines == 1..3
MaxAcquires == 2
MaxErrors == 1

\* Lock.__init__, and an executor nothing listens on
NewLock == [locked |-> FALSE, trigger |-> FALSE, listening |-> {}]

NewRoutine == [pc |-> "idle", got |-> 0, errors |-> 0]

InitLock ==
    /\ mutex = NewLock
    /\ routine = [r \in Routines |-> NewRoutine]
    /\ suspend = <<>>
    /\ child = <<>>
    /\ woken = <<>>
    /\ StoreIdle
    /\ GossipIdle
    /\ SeqIdle
    /\ SchedIdle
    /\ AppIdle

\* an _Acquire.apply that takes the lock without looking at `locked`
acquire_apply_unchecked(st, r) ==
    [m |-> [st.m EXCEPT !.locked = TRUE, !.trigger = TRUE],
     rs |-> [st.rs EXCEPT ![r].pc = "woken"]]

\* Lock._Acquire.apply for the Acquire of coroutine r: listen_reapply on
\* the lock while it is held, else take it and wake r
acquire_apply(st, r) ==
    IF st.m.locked
    THEN [m |-> [st.m EXCEPT !.listening = @ \cup {r}],
          rs |-> [st.rs EXCEPT ![r].pc = "waiting"]]
    ELSE [m |-> [st.m EXCEPT !.locked = TRUE, !.trigger = TRUE],
          rs |-> [st.rs EXCEPT ![r].pc = "woken"]]

\* Executor.trigger(lock), after the callbacks were popped: each is run in
\* turn and applies its Acquire again
RECURSIVE trigger(_, _)
trigger(st, order) ==
    IF order = <<>> THEN st
    ELSE trigger(acquire_apply(st, Head(order)), Tail(order))

\* the orders in which a set of callbacks may be iterated
Orders(S) ==
    {o \in [1..Cardinality(S) -> S] : \A i, j \in DOMAIN o : o[i] = o[j] => i = j}

\* Lock.release() once it has found the lock locked
release(st, order) ==
    trigger([st EXCEPT !.m.locked = FALSE, !.m.trigger = FALSE,
                       !.m.listening = {}], order)

\* a coroutine yields lock.Acquire() and the executor applies it
Acquire(r) ==
    /\ routine[r].pc = "idle"
    /\ routine[r].got < MaxAcquires
    /\ LET st == acquire_apply([m |-> mutex, rs |-> routine], r) IN
        /\ mutex' = st.m
        /\ routine' = st.rs
    /\ UNCHANGED <<suspend, child, woken, storeVars, gossipVars, seqVars,
                   schedVars, appVars>>

\* the executor resumes a coroutine its Acquire has woken
Resume(r) ==
    /\ routine[r].pc = "woken"
    /\ routine' = [routine EXCEPT ![r].pc = "critical", ![r].got = @ + 1]
    /\ UNCHANGED <<mutex, suspend, child, woken, storeVars, gossipVars,
                   seqVars, schedVars, appVars>>

\* the coroutine in the section calls lock.release()
Release(r) ==
    /\ routine[r].pc = "critical"
    /\ mutex.locked
    /\ \E order \in Orders(mutex.listening) :
        LET st == release([m |-> mutex,
                           rs |-> [routine EXCEPT ![r].pc = "idle"]], order)
        IN  /\ mutex' = st.m
            /\ routine' = st.rs
    /\ UNCHANGED <<suspend, child, woken, storeVars, gossipVars, seqVars,
                   schedVars, appVars>>

\* a coroutine calls lock.release() while the lock is not locked:
\* RuntimeError('Releasing unlocked lock')
ReleaseUnlocked(r) ==
    /\ routine[r].pc = "idle"
    /\ routine[r].errors < MaxErrors
    /\ ~mutex.locked
    /\ routine' = [routine EXCEPT ![r].errors = @ + 1]
    /\ UNCHANGED <<mutex, suspend, child, woken, storeVars, gossipVars,
                   seqVars, schedVars, appVars>>

\* SimpleCancellable.cancel on an Acquire that waits: its callback stops
\* listening on the lock
CancelAcquire(r) ==
    /\ routine[r].pc = "waiting"
    /\ mutex' = [mutex EXCEPT !.listening = @ \ {r}]
    /\ routine' = [routine EXCEPT ![r].pc = "idle"]
    /\ UNCHANGED <<suspend, child, woken, storeVars, gossipVars, seqVars,
                   schedVars, appVars>>

NextLock ==
    \/ \E r \in Routines : Acquire(r)
    \/ \E r \in Routines : Resume(r)
    \/ \E r \in Routines : Release(r)
    \/ \E r \in Routines : ReleaseUnlocked(r)
    \/ \E r \in Routines : CancelAcquire(r)

SpecLock == InitLock /\ [][NextLock]_vars

\* the coroutines that hold the lock: their Acquire has completed and they
\* have not released it
Holders == {r \in Routines : routine[r].pc \in {"woken", "critical"}}

\* the step is a release() by h of the lock it holds
Releases(h) == routine[h].pc = "critical" /\ routine'[h].pc = "idle"

\* C40: at most one coroutine holds a Lock at any time; an Acquire applied
\* while the lock is held completes only after a release(); each release()
\* with Acquires waiting hands the lock to exactly one of them, and the
\* others keep waiting; release() of a lock that is not locked raises
\* RuntimeError and changes nothing.
C40_LockExcludes ==
    /\ [](/\ Cardinality(Holders) <= 1
          /\ mutex.locked <=> Holders # {}
          /\ \A r \in Routines :
                routine[r].pc = "waiting" <=> r \in mutex.listening)
    /\ [][\A r \in Routines :
            /\ (routine[r].pc = "idle" /\ mutex.locked)
                  => routine'[r].pc # "woken"
            /\ (routine[r].pc = "waiting" /\ routine'[r].pc = "woken")
                  => \E h \in Routines : Releases(h)
            /\ (Releases(r) /\ mutex.listening # {})
                  => \E w \in mutex.listening :
                        /\ Holders' = {w}
                        /\ mutex'.listening = mutex.listening \ {w}
            /\ (Releases(r) /\ mutex.listening = {})
                  => ~mutex'.locked
            /\ routine'[r].errors # routine[r].errors
                  => /\ ~mutex.locked
                     /\ mutex' = mutex
                     /\ routine' = [routine EXCEPT ![r].errors = @ + 1]]_vars

\* a release has handed the lock to one of two waiting coroutines, and a
\* release of the unlocked lock has raised before
C40_Witness ==
    \E h, w, o \in Routines :
        /\ routine[h].pc = "idle" /\ routine[h].got = 1
        /\ routine[w].pc = "woken" /\ routine[w].got = 0
        /\ routine[o].pc = "waiting"
        /\ \E r \in Routines : routine[r].errors = 1

====
